---- MODULE Spec2Model ----
(***************************************************************************)
(* Verification model of the LelyIntegration library:                      *)
(*   - MotorDriver::determineStateFromStatusWord (CiA-402 state derivation)*)
(*   - DCFConfigMaster boot bookkeeping (registerDriver, OnBoot, reset)     *)
(*   - DCFDriver follower inference (configureFollowerRelationship)         *)
(*   - DCFDriver configuration engine (configureSDO, configurePDO, ...)     *)
(* Each part has its own specification over its own group of variables;    *)
(* the variables of the other groups are pinned to their idle values.      *)
(***************************************************************************)
EXTENDS Integers, Sequences, FiniteSets, TLC

VARIABLES
    \* ---- state derivation (MotorDriver::determineStateFromStatusWord)
    dCur,       \* argument currentState
    dSw,        \* argument statusWord (uint16_t)
    dNode,      \* argument nodeID (uint8_t)
    dNext,      \* returned state, "none" before the call
    \* ---- boot bookkeeping (DCFConfigMaster)
    uploadFile1F20,           \* sub-indices of 0x1F20 holding a file name
    uploadFile1F22,           \* sub-indices of 0x1F22 holding a file name
    masterPhase,              \* "constructed", then "configured"
    m_drivers,                \* keys of DCFConfigMaster::m_drivers
    m_devicesToBoot,          \* DCFConfigMaster::m_devicesToBoot
    m_bootCompletedCallback,  \* TRUE when a callback is installed
    bootCallbacks,            \* ids the callback got in the last operation
    nmtCommand,               \* NMT command issued by the last operation
    bootEvent,                \* the last operation and its arguments
    bootedOk,                 \* nodes booted with es = 0 since the last reset()
    allBooted,                \* callback(0) invocations since the last reset()
    afterReset,               \* TRUE once reset() was called
    customClearConfigurationStrategy,   \* the registered drivers with a
                              \* clear-configuration strategy installed
    \* ---- follower inference (DCFDriver::configureFollowerRelationship)
    binaryDcf,                \* per driver: a binary DCF file is configured
    rpdoControl,              \* per driver: local value of sub-index 1 of the
                              \* RPDO control objects of m_sdosToConfigure
    masterNodeConfig,         \* master objects 0x5C00 + k, sub-index 0
    masterCobConfig,          \* master objects 0x1800 + k, sub-index 1
    m_followingNodeID,        \* per driver
    m_followsNodeID,          \* per driver
    m_firstNodeIDUsing_RPDO_COB_ID,   \* COB-ID -> node ID, 0 when absent
    configRunning,            \* per driver: OnConfig has not completed yet
    rpdoDone,                 \* per driver: RPDO control objects handled
    lastInference,            \* the last textual inference and its inputs
    firstClaimer,             \* COB-ID -> first driver that looked it up
    \* ---- configuration engine of one driver (DCFDriver::configure)
    m_sdosToConfigure,        \* the configured-objects list
    configStarted,            \* OnConfig was called
    outstanding,              \* SDO requests submitted and not completed
    sdoLog,                   \* every SDO request of the run, as issued
    resCalls,                 \* the calls of the completion callback res
    firstFailure,             \* the first failing step of the run
    requestsAtFailure,        \* Len(sdoLog) when that step failed
    remoteCobId,              \* the node's value of I:1, per control object
    completedOk,              \* positions in sdoLog of the requests that
                              \* completed without error
    unsupportedTypes,         \* <<index, sub-index>> of the local objects
                              \* whose type copyObject cannot transfer
    m_clearConfigurationStrategy,   \* TRUE when a strategy is installed
    strategyPending,          \* the strategy runs and has not called back
    strategyResult,           \* what the strategy called back with
    dcfOutstanding,           \* SubmitWriteDcf was issued and is not complete
    dcfSubmitted,             \* the number of SubmitWriteDcf calls
    dcfResult,                \* what the download completed with
    \* ---- MotorDriver, per driver
    m_state,                  \* the aggregated state
    m_mainNodeState,
    m_followingNodeState,
    m_statusWord,
    m_callbackOnIDLE,         \* the idle continuations, oldest first
    m_currentMoveMode,
    m_moveToPosition,
    m_moveSpeed,
    m_moveAcceleration,
    m_moveDeacceleration,
    m_masterNmtState,
    m_nodeNmtState,
    m_emergencyOccured,
    sdoQueue,                 \* callbacks of the SDO requests in flight
    timers,                   \* SubmitWait timers that are running
    trace,                    \* the values m_state took, in order
    \* ---- MotorDriver, the executor and the bus
    posted,                   \* tasks posted to the executor, oldest first
    busLog,                   \* SDO and PDO writes, reads and NMT commands
    invoked,                  \* the user callbacks called, in order
    errorCalls,               \* the calls of m_errorCallback
    setterFamily,             \* "sdo" or "pdo": the CommunicationConfig
    calls,                    \* number of move/home/recoverFromFault calls
    deviations,               \* number of status words out of turn
    lastCall,                 \* the last call of move/home/recoverFromFault
    callingThread,            \* a call made on a thread other than the
                              \* executor's: where it stands, what it touched
    nestedSetState,           \* setState was entered while a setState of the
                              \* same driver was running
    m_callbacksOnIdleMutex    \* the thread that owns the mutex, and where the
                              \* executor thread and another thread stand in
                              \* processOldestCallbackOnIdle and
                              \* addCallbackOnIdle

deriveVars == <<dCur, dSw, dNode, dNext>>

bootVars == <<uploadFile1F20, uploadFile1F22, masterPhase, m_drivers,
              m_devicesToBoot, m_bootCompletedCallback, bootCallbacks,
              nmtCommand, bootEvent, bootedOk, allBooted, afterReset,
              customClearConfigurationStrategy>>

followVars == <<binaryDcf, rpdoControl, masterNodeConfig, masterCobConfig,
                m_followingNodeID, m_followsNodeID,
                m_firstNodeIDUsing_RPDO_COB_ID, configRunning, rpdoDone,
                lastInference, firstClaimer>>

configVars == <<m_sdosToConfigure, configStarted, outstanding, sdoLog,
                resCalls, firstFailure, requestsAtFailure, remoteCobId,
                completedOk, unsupportedTypes, m_clearConfigurationStrategy,
                strategyPending, strategyResult, dcfOutstanding,
                dcfSubmitted, dcfResult>>

motorVars == <<m_state, m_mainNodeState, m_followingNodeState, m_statusWord,
               m_callbackOnIDLE, m_currentMoveMode, m_moveToPosition,
               m_moveSpeed, m_moveAcceleration, m_moveDeacceleration,
               m_masterNmtState, m_nodeNmtState, m_emergencyOccured,
               sdoQueue, timers, trace, posted, busLog, invoked, errorCalls,
               setterFamily, calls, deviations, lastCall, callingThread,
               nestedSetState, m_callbacksOnIdleMutex>>

vars == <<deriveVars, bootVars, followVars, configVars, motorVars>>

(***************************************************************************)
(* The idle value of each group of variables: what the group holds in the  *)
(* specifications of the other groups.                                     *)
(***************************************************************************)
DeriveIdle ==
    /\ dCur = "INITIAL_STATE"
    /\ dSw = 0
    /\ dNode = 0
    /\ dNext = "none"

NoEvent == [op |-> "none", id |-> 0, es |-> 0, wasPending |-> FALSE]

BootIdle ==
    /\ uploadFile1F20 = {}
    /\ uploadFile1F22 = {}
    /\ masterPhase = "constructed"
    /\ m_drivers = {}
    /\ m_devicesToBoot = {}
    /\ m_bootCompletedCallback = FALSE
    /\ bootCallbacks = <<>>
    /\ nmtCommand = "none"
    /\ bootEvent = NoEvent
    /\ bootedOk = {}
    /\ allBooted = 0
    /\ afterReset = FALSE
    /\ customClearConfigurationStrategy = {}

\* number of node IDs the model's bus carries (sub-indices 1 .. MaxNodes)
MaxNodes == 3
Nodes == 1 .. MaxNodes

\* the RPDO COB-IDs of the model: 0x203 and 0x204
CobIds == {515, 516}

NoInference == [node |-> 0, cobID |-> 0, first |-> 0]

FollowIdle ==
    /\ binaryDcf = [d \in Nodes |-> FALSE]
    /\ rpdoControl = [d \in Nodes |-> <<>>]
    /\ masterNodeConfig = <<>>
    /\ masterCobConfig = <<>>
    /\ m_followingNodeID = [d \in Nodes |-> 0]
    /\ m_followsNodeID = [d \in Nodes |-> 0]
    /\ m_firstNodeIDUsing_RPDO_COB_ID = [c \in CobIds |-> 0]
    /\ configRunning = [d \in Nodes |-> FALSE]
    /\ rpdoDone = [d \in Nodes |-> 0]
    /\ lastInference = NoInference
    /\ firstClaimer = [c \in CobIds |-> 0]

\* std::error_code() and the ConfigErrorContext of a failed step
Success == [value |-> 0, kind |-> "none", index |-> 0, sub |-> 0]
NoFailure == [value |-> 0, kind |-> "no failure", index |-> 0, sub |-> 0]
NoResult == [value |-> 0, kind |-> "no result", index |-> 0, sub |-> 0]

ConfigIdle ==
    /\ m_sdosToConfigure = <<>>
    /\ configStarted = FALSE
    /\ outstanding = {}
    /\ sdoLog = <<>>
    /\ resCalls = <<>>
    /\ firstFailure = NoFailure
    /\ requestsAtFailure = 0
    /\ remoteCobId = <<>>
    /\ completedOk = {}
    /\ unsupportedTypes = {}
    /\ m_clearConfigurationStrategy = FALSE
    /\ strategyPending = FALSE
    /\ strategyResult = NoResult
    /\ dcfOutstanding = FALSE
    /\ dcfSubmitted = 0
    /\ dcfResult = NoResult

NoMotorEvent ==
    [op |-> "none", node |-> 0, sw |-> 0, n |-> 0, from |-> "none"]

\* the mutex is free and no thread is inside processOldestCallbackOnIdle or
\* addCallbackOnIdle
Unlocked == [owner |-> "none", executor |-> "none", thread |-> "none"]

\* no call is under way on another thread
NoCall ==
    [pc |-> "none", op |-> "none", node |-> 0, n |-> 0, args |-> <<>>,
     saw |-> "none", access |-> {}]

MotorIdle ==
    /\ m_state = <<>>
    /\ m_mainNodeState = <<>>
    /\ m_followingNodeState = <<>>
    /\ m_statusWord = <<>>
    /\ m_callbackOnIDLE = <<>>
    /\ m_currentMoveMode = <<>>
    /\ m_moveToPosition = <<>>
    /\ m_moveSpeed = <<>>
    /\ m_moveAcceleration = <<>>
    /\ m_moveDeacceleration = <<>>
    /\ m_masterNmtState = <<>>
    /\ m_nodeNmtState = <<>>
    /\ m_emergencyOccured = <<>>
    /\ posted = <<>>
    /\ sdoQueue = <<>>
    /\ timers = <<>>
    /\ busLog = <<>>
    /\ invoked = <<>>
    /\ errorCalls = <<>>
    /\ trace = <<>>
    /\ setterFamily = "none"
    /\ calls = 0
    /\ deviations = 0
    /\ lastCall = NoMotorEvent
    /\ callingThread = NoCall
    /\ nestedSetState = FALSE
    /\ m_callbacksOnIdleMutex = Unlocked

(***************************************************************************)
(* MotorDriver::State and MotorDriver::StatusWordFlags                     *)
(***************************************************************************)
State ==
    { "INITIAL_STATE", "INITIAL_POWER_ON", "INITIAL_POWER_OFF",
      "CYCLE_POWER_SHUTDOWN", "POWER_ON_DISABLE_OPERATION", "IDLE",
      "PREPARE_MOVE", "READY_TO_MOVE", "MOVING", "PREPARE_HOMING",
      "READY_FOR_HOMING", "HOMING", "FAULT_STATE", "FAULT_RESET",
      "NODE_RESET" }

READY_TO_SWITCH_ON == 1
SWITCHED_ON == 2
OPERATION_ENABLED == 4
FAULT == 8
VOLTAGE_ENABLED == 16
MANUFACTURER_SPECIFIC1 == 256
TARGET_REACHED == 1024
OPERATION_MODE_SPECIFIC1 == 4096
OPERATION_MODE_SPECIFIC2 == 8192

\* number of bits of the status word (uint16_t m_statusWord)
StatusWordBits == 16
StatusWords == 0 .. (2 ^ StatusWordBits - 1)

\* largest CANopen node ID (7 bit)
MaxNodeID == 127

\* statusWord & flag, for a flag that is a single bit
Has(statusWord, flag) == (statusWord \div flag) % 2 = 1

(***************************************************************************)
(* MotorDriver::determineStateFromStatusWord, branch by branch.  nodeID is *)
(* only used for the log lines.                                            *)
(***************************************************************************)
\* "Drive switched off": READY_TO_SWITCH_ON without SWITCHED_ON and
\* OPERATION_ENABLED
driveSwitchedOff(statusWord) ==
    /\ Has(statusWord, READY_TO_SWITCH_ON)
    /\ ~Has(statusWord, SWITCHED_ON)
    /\ ~Has(statusWord, OPERATION_ENABLED)

\* "Drive switched on": READY_TO_SWITCH_ON, SWITCHED_ON and VOLTAGE_ENABLED
driveSwitchedOn(statusWord) ==
    /\ Has(statusWord, READY_TO_SWITCH_ON)
    /\ Has(statusWord, SWITCHED_ON)
    /\ Has(statusWord, VOLTAGE_ENABLED)

determineHomingErrorIgnored(currentState, statusWord) ==
    \* mutant: the homing error bit is not tested
    IF Has(statusWord, OPERATION_MODE_SPECIFIC1)
    THEN "POWER_ON_DISABLE_OPERATION"
    ELSE currentState

determineHomingErrorFirst(currentState, statusWord) ==
    \* mutant: the homing error bit is tested before the homing attained bit
    IF Has(statusWord, OPERATION_MODE_SPECIFIC2)
    THEN "FAULT_STATE"
    ELSE IF Has(statusWord, OPERATION_MODE_SPECIFIC1)
    THEN "POWER_ON_DISABLE_OPERATION"
    ELSE currentState

\* currentState == HOMING with TARGET_REACHED: the inner if / else if
determineHomingTargetReached(currentState, statusWord) ==
    IF Has(statusWord, OPERATION_MODE_SPECIFIC1)
    THEN "POWER_ON_DISABLE_OPERATION"
    ELSE IF Has(statusWord, OPERATION_MODE_SPECIFIC2)
    THEN "FAULT_STATE"
    ELSE currentState

\* drive switched on, operation not enabled
determineOperationDisabled(currentState, statusWord) ==
    IF currentState = "POWER_ON_DISABLE_OPERATION"
    THEN "IDLE"
    ELSE IF currentState = "FAULT_STATE"
            /\ ~Has(statusWord, MANUFACTURER_SPECIFIC1)
    THEN "FAULT_RESET"
    ELSE IF currentState = "FAULT_RESET"
            /\ ~Has(statusWord, MANUFACTURER_SPECIFIC1)
    THEN "CYCLE_POWER_SHUTDOWN"
    ELSE currentState

\* drive switched on, operation enabled
determineOperationEnabled(currentState, statusWord) ==
    IF currentState = "PREPARE_HOMING"
    THEN "READY_FOR_HOMING"
    ELSE IF currentState = "READY_FOR_HOMING"
            /\ ~Has(statusWord, TARGET_REACHED)
            /\ ~Has(statusWord, OPERATION_MODE_SPECIFIC1)
            /\ ~Has(statusWord, OPERATION_MODE_SPECIFIC2)
    THEN "HOMING"
    ELSE IF currentState = "HOMING"
            /\ Has(statusWord, TARGET_REACHED)
    THEN determineHomingTargetReached(currentState, statusWord)
    ELSE IF currentState = "PREPARE_MOVE"
            /\ Has(statusWord, OPERATION_MODE_SPECIFIC1)
    THEN "READY_TO_MOVE"
    ELSE IF currentState = "READY_TO_MOVE"
            /\ ~Has(statusWord, TARGET_REACHED)
            /\ ~Has(statusWord, OPERATION_MODE_SPECIFIC1)
    THEN "MOVING"
    ELSE IF currentState = "MOVING"
            /\ Has(statusWord, TARGET_REACHED)
    THEN "POWER_ON_DISABLE_OPERATION"
    ELSE currentState

\* the part of the function after the FAULT test
determineWithoutFault(currentState, statusWord) ==
    IF driveSwitchedOff(statusWord)
    THEN IF currentState = "INITIAL_STATE"
         THEN "INITIAL_POWER_OFF"
         ELSE "POWER_ON_DISABLE_OPERATION"
    ELSE IF currentState = "INITIAL_STATE"
    THEN "INITIAL_POWER_ON"
    ELSE IF driveSwitchedOn(statusWord)
    THEN IF ~Has(statusWord, OPERATION_ENABLED)
         THEN determineOperationDisabled(currentState, statusWord)
         ELSE determineOperationEnabled(currentState, statusWord)
    ELSE currentState

determineFaultTestedLate(currentState, statusWord, nodeID) ==
    \* mutant: the FAULT test is made after the test for a switched-off drive
    IF driveSwitchedOff(statusWord)
    THEN determineWithoutFault(currentState, statusWord)
    ELSE IF Has(statusWord, FAULT)
    THEN "FAULT_STATE"
    ELSE determineWithoutFault(currentState, statusWord)

determineStateFromStatusWord(currentState, statusWord, nodeID) ==
    IF Has(statusWord, FAULT)
    THEN "FAULT_STATE"
    ELSE determineWithoutFault(currentState, statusWord)

(***************************************************************************)
(* DCFConfigMaster: driver registration, the pending-boot set, OnBoot and  *)
(* reset().                                                                *)
(***************************************************************************)
\* CiA-302 boot error status: 0 is success, 'B' (66) a missing node, 'A' (65)
\* stands for every other error
BootStatus == {0, 65, 66}

\* the master after its constructor, for every content of 0x1F20 and 0x1F22
BootInit ==
    /\ uploadFile1F20 \in SUBSET Nodes
    /\ uploadFile1F22 \in SUBSET Nodes
    /\ masterPhase = "constructed"
    /\ m_drivers = {}
    /\ m_devicesToBoot = {}
    /\ m_bootCompletedCallback = FALSE
    /\ bootCallbacks = <<>>
    /\ nmtCommand = "none"
    /\ bootEvent = NoEvent
    /\ bootedOk = {}
    /\ allBooted = 0
    /\ afterReset = FALSE
    /\ customClearConfigurationStrategy = {}
    /\ DeriveIdle
    /\ FollowIdle
    /\ ConfigIdle
    /\ MotorIdle

\* setBootCompletedCallback, called before configureDrivers as in main.cpp
setBootCompletedCallback ==
    /\ masterPhase = "constructed"
    /\ ~m_bootCompletedCallback
    /\ m_bootCompletedCallback' = TRUE
    /\ bootEvent' = [NoEvent EXCEPT !.op = "setBootCompletedCallback"]
    /\ bootCallbacks' = <<>>
    /\ nmtCommand' = "none"
    /\ UNCHANGED <<uploadFile1F20, uploadFile1F22, masterPhase, m_drivers,
                   m_devicesToBoot, bootedOk, allBooted, afterReset,
                   customClearConfigurationStrategy>>
    /\ UNCHANGED <<deriveVars, followVars, configVars, motorVars>>

\* initializeDevicesFromTextualDCF / initializeDevicesForBinaryDCF: the
\* sub-indices 1 .. 127 whose file name is not empty
slaveEntries(uploadFile) == {subIndex \in Nodes : subIndex \in uploadFile}

\* configureDrivers: registerDriver for every entry of 0x1F20, then of 0x1F22
configureDrivers ==
    /\ masterPhase = "constructed"
    /\ masterPhase' = "configured"
    /\ m_drivers' = m_drivers \cup slaveEntries(uploadFile1F20)
                              \cup slaveEntries(uploadFile1F22)
    /\ m_devicesToBoot' = m_devicesToBoot \cup slaveEntries(uploadFile1F20)
                                          \cup slaveEntries(uploadFile1F22)
    /\ bootEvent' = [NoEvent EXCEPT !.op = "configureDrivers"]
    /\ bootCallbacks' = <<>>
    /\ nmtCommand' = "none"
    /\ UNCHANGED <<uploadFile1F20, uploadFile1F22, m_bootCompletedCallback,
                   bootedOk, allBooted, afterReset,
                   customClearConfigurationStrategy>>
    /\ UNCHANGED <<deriveVars, followVars, configVars, motorVars>>

bootGuardWithoutSize(es, devicesToBoot) ==
    \* mutant: the test m_devicesToBoot.size() > 0 is missing
    es = 0

bootGuardWithoutStatus(es, devicesToBoot) ==
    \* mutant: the test es == 0 is missing
    devicesToBoot # {}

\* if (es == 0 && m_devicesToBoot.size() > 0)
bootGuard(es, devicesToBoot) ==
    es = 0 /\ devicesToBoot # {}

\* DCFConfigMaster::OnBoot, for a boot event of node id with error status es
OnBoot(id, es) ==
    /\ masterPhase = "configured"
    /\ LET perNode == IF m_bootCompletedCallback THEN <<id>> ELSE <<>>
           erased  == IF bootGuard(es, m_devicesToBoot)
                      THEN m_devicesToBoot \ {id}
                      ELSE m_devicesToBoot
           fires   == /\ bootGuard(es, m_devicesToBoot)
                      /\ erased = {}
                      /\ m_bootCompletedCallback
       IN  /\ m_devicesToBoot' = erased
           /\ bootCallbacks' = IF fires THEN Append(perNode, 0) ELSE perNode
           /\ allBooted' = IF fires /\ allBooted < 2
                           THEN allBooted + 1 ELSE allBooted
    /\ bootedOk' = IF es = 0 THEN bootedOk \cup {id} ELSE bootedOk
    /\ bootEvent' = [op |-> "OnBoot", id |-> id, es |-> es,
                     wasPending |-> id \in m_devicesToBoot]
    /\ nmtCommand' = "none"
    /\ UNCHANGED <<uploadFile1F20, uploadFile1F22, masterPhase, m_drivers,
                   m_bootCompletedCallback, afterReset,
                   customClearConfigurationStrategy>>
    /\ UNCHANGED <<deriveVars, followVars, configVars, motorVars>>

\* DCFConfigMaster::reset
reset ==
    /\ masterPhase = "configured"
    /\ m_devicesToBoot' = m_devicesToBoot \cup m_drivers
    /\ nmtCommand' = "RESET_NODE"
    /\ bootEvent' = [NoEvent EXCEPT !.op = "reset"]
    /\ bootCallbacks' = <<>>
    /\ bootedOk' = {}
    /\ allBooted' = 0
    /\ afterReset' = TRUE
    /\ UNCHANGED <<uploadFile1F20, uploadFile1F22, masterPhase, m_drivers,
                   m_bootCompletedCallback, customClearConfigurationStrategy>>
    /\ UNCHANGED <<deriveVars, followVars, configVars, motorVars>>

BootNext ==
    \/ setBootCompletedCallback
    \/ configureDrivers
    \/ \E id \in Nodes, es \in BootStatus : OnBoot(id, es)
    \/ reset

SpecBoot == BootInit /\ [][BootNext]_vars

(***************************************************************************)
(* Specification SpecCommand: the master with its registered drivers,      *)
(* clear-configuration strategies installed on some of them, and the NMT   *)
(* commands the master receives.                                           *)
(***************************************************************************)
\* lely::canopen::NmtCommand
NmtCommands == {"START", "STOP", "ENTER_PREOP", "RESET_NODE", "RESET_COMM"}

\* a mutant of hasCustomClearConfigurationStrategy: every driver has one
hasStrategyAlways(id) == TRUE

\* DCFDriver::hasCustomClearConfigurationStrategy of the driver of node id
hasCustomClearConfigurationStrategy(id) ==
    id \in customClearConfigurationStrategy

\* DCFDriver::setClearConfigurationStrategy on the registered driver of
\* node id
setClearConfigurationStrategy(id) ==
    /\ masterPhase = "configured"
    /\ id \in m_drivers
    /\ id \notin customClearConfigurationStrategy
    /\ customClearConfigurationStrategy' =
          customClearConfigurationStrategy \cup {id}
    /\ bootEvent' = [NoEvent EXCEPT !.op = "setClearConfigurationStrategy",
                                    !.id = id]
    /\ bootCallbacks' = <<>>
    /\ nmtCommand' = "none"
    /\ UNCHANGED <<uploadFile1F20, uploadFile1F22, masterPhase, m_drivers,
                   m_devicesToBoot, m_bootCompletedCallback, bootedOk,
                   allBooted, afterReset>>
    /\ UNCHANGED <<deriveVars, followVars, configVars, motorVars>>

\* SetUploadFile(idx, id, "") for every driver of the set: the entries hold
\* no file name afterwards; an entry that does not exist gives an error
\* that is ignored
SetUploadFileEmpty(uploadFile, drivers) == uploadFile \ drivers

\* DCFConfigMaster::OnCommand, for the NMT command cs
MasterOnCommand(cs) ==
    /\ masterPhase = "configured"
    /\ IF cs = "RESET_COMM"
       THEN /\ uploadFile1F20' = SetUploadFileEmpty(uploadFile1F20, m_drivers)
            /\ uploadFile1F22' =
                  SetUploadFileEmpty(uploadFile1F22,
                      {id \in m_drivers :
                          hasCustomClearConfigurationStrategy(id)})
       ELSE UNCHANGED <<uploadFile1F20, uploadFile1F22>>
    /\ bootEvent' = [NoEvent EXCEPT !.op = "OnCommand " \o cs]
    /\ bootCallbacks' = <<>>
    /\ nmtCommand' = "none"
    /\ UNCHANGED <<masterPhase, m_drivers, m_devicesToBoot,
                   m_bootCompletedCallback, bootedOk, allBooted, afterReset,
                   customClearConfigurationStrategy>>
    /\ UNCHANGED <<deriveVars, followVars, configVars, motorVars>>

CommandNext ==
    \/ configureDrivers
    \/ \E id \in Nodes : setClearConfigurationStrategy(id)
    \/ \E cs \in NmtCommands : MasterOnCommand(cs)
    \/ reset

SpecCommand == BootInit /\ [][CommandNext]_vars

(***************************************************************************)
(* Specification SpecDerive: the derivation applied to every current state,*)
(* every 16-bit status word and the smallest and largest node ID.          *)
(***************************************************************************)
DeriveNodes == {1, MaxNodeID}

DeriveInit ==
    /\ dCur \in State
    /\ dSw = 0
    /\ dNode = 0
    /\ dNext = "none"
    /\ BootIdle
    /\ FollowIdle
    /\ ConfigIdle
    /\ MotorIdle

Derive ==
    /\ dNext = "none"
    /\ \E sw \in StatusWords, n \in DeriveNodes :
          /\ dSw' = sw
          /\ dNode' = n
          /\ dNext' = determineStateFromStatusWord(dCur, sw, n)
    /\ UNCHANGED dCur
    /\ UNCHANGED <<bootVars, followVars, configVars, motorVars>>

DeriveNext == Derive

SpecDerive == DeriveInit /\ [][DeriveNext]_vars

(***************************************************************************)
(* DCFDriver follower inference.  A 32-bit COB-ID word is kept as its top  *)
(* three bits (hi) and its low 29 bits (lo).  The master's object          *)
(* dictionary holds the contiguous tables 0x5C00 + k (RPDO number in bits  *)
(* 8-15, node ID in bits 0-7) and 0x1800 + k (COB-ID); entry k of the code *)
(* is element k + 1 of the sequences.  Every node ID the tables name has a *)
(* registered driver, and a driver with a binary DCF file has no objects   *)
(* in m_sdosToConfigure.                                                   *)
(***************************************************************************)
\* most RPDO control objects in one driver's m_sdosToConfigure
MaxRpdo == 1
\* most entries of the master's 0x5C00 / 0x1800 tables
MaxTable == 2

\* 0x80000203 and 0x00000204
RpdoWords == {[hi |-> 4, lo |-> 515], [hi |-> 0, lo |-> 516]}
RpdoLists == UNION {[1 .. n -> RpdoWords] : n \in 0 .. MaxRpdo}
NodeConfigValues == {256 * rpdo + n : rpdo \in {1, 2}, n \in Nodes}
\* 0x203 and 0xA04
MasterCobValues == {515, 2564}

Min(S) == CHOOSE x \in S : \A y \in S : x <= y

followerState ==
    [following |-> m_followingNodeID, follows |-> m_followsNodeID,
     first |-> m_firstNodeIDUsing_RPDO_COB_ID]

getFirstNodeIDUsing_RPDO_COB_ID(registry, cobID) ==
    IF cobID \in DOMAIN registry THEN registry[cobID] ELSE 0

setFirstNodeIDUsing_RPDO_COB_ID(registry, nodeID, cobID) ==
    [registry EXCEPT ![cobID] = nodeID]

\* the link made whatever the order of the two node IDs
becomeFollowerAlways(fs, self, other) ==
    IF other = self THEN fs
    ELSE [fs EXCEPT !.follows[self] = other, !.following[other] = self]

\* the two branches on the node IDs, the same in both inference paths
becomeFollowerOrMain(fs, self, other) ==
    IF other < self
    THEN [fs EXCEPT !.follows[self] = other, !.following[other] = self]
    ELSE IF other > self
         THEN [fs EXCEPT !.following[self] = other, !.follows[other] = self]
         ELSE fs

\* the textual inference with a registry whose entry goes to the last claimer
configureFollowerRelationshipOverwriting(fs, self, word) ==
    LET cobID == word.lo
        firstNodeIDforCOB_ID == getFirstNodeIDUsing_RPDO_COB_ID(fs.first, cobID)
        claimed == [fs EXCEPT !.first =
                       setFirstNodeIDUsing_RPDO_COB_ID(fs.first, self, cobID)]
    IN  IF firstNodeIDforCOB_ID = 0
        THEN claimed
        ELSE becomeFollowerOrMain(claimed, self, firstNodeIDforCOB_ID)

\* configureFollowerRelationship(objectToSend): word is the local value of
\* sub-index 1 of the RPDO control object
configureFollowerRelationshipText(fs, self, word) ==
    LET cobID == word.lo                            \* & 0x1FFFFFFF
        firstNodeIDforCOB_ID == getFirstNodeIDUsing_RPDO_COB_ID(fs.first, cobID)
    IN  IF firstNodeIDforCOB_ID = 0
        THEN [fs EXCEPT !.first =
                 setFirstNodeIDUsing_RPDO_COB_ID(fs.first, self, cobID)]
        ELSE becomeFollowerOrMain(fs, self, firstNodeIDforCOB_ID)

\* configureFollowerRelationship(): the scan of the master's tables
configureFollowerRelationshipBinary(fs, self, nodeConfig, cobConfig) ==
    LET own == {k \in DOMAIN nodeConfig : 256 + self = nodeConfig[k] % 65536}
    IN  IF own = {}
        THEN fs
        ELSE
          LET k == Min(own)
              cobID == cobConfig[k] % 2048
              others == {j \in DOMAIN cobConfig :
                            j # k /\ cobConfig[j] % 2048 = cobID}
          IN  IF others = {}
              THEN fs
              ELSE
                LET otherNodeConfig == nodeConfig[Min(others)] % 65536
                IN  IF (otherNodeConfig \div 256) % 256 # 1
                    THEN fs
                    ELSE becomeFollowerOrMain(fs, self, otherNodeConfig % 256)

FollowInit ==
    /\ binaryDcf \in [Nodes -> BOOLEAN]
    /\ rpdoControl \in [Nodes -> RpdoLists]
    /\ \A d \in Nodes : binaryDcf[d] => rpdoControl[d] = <<>>
    /\ \E n \in 0 .. MaxTable :
          /\ masterNodeConfig \in [1 .. n -> NodeConfigValues]
          /\ masterCobConfig \in [1 .. n -> MasterCobValues]
    /\ m_followingNodeID = [d \in Nodes |-> 0]
    /\ m_followsNodeID = [d \in Nodes |-> 0]
    /\ m_firstNodeIDUsing_RPDO_COB_ID = [c \in CobIds |-> 0]
    /\ configRunning = [d \in Nodes |-> FALSE]
    /\ rpdoDone = [d \in Nodes |-> 0]
    /\ lastInference = NoInference
    /\ firstClaimer = [c \in CobIds |-> 0]
    /\ DeriveIdle
    /\ BootIdle
    /\ ConfigIdle
    /\ MotorIdle

\* DCFDriver::OnConfig of driver d up to the first object of the list
FollowOnConfig(d) ==
    /\ ~configRunning[d]
    /\ LET fs == IF binaryDcf[d]
                 THEN configureFollowerRelationshipBinary(followerState, d,
                          masterNodeConfig, masterCobConfig)
                 ELSE followerState
       IN  /\ m_followingNodeID' = fs.following
           /\ m_followsNodeID' = fs.follows
           /\ m_firstNodeIDUsing_RPDO_COB_ID' = fs.first
    /\ configRunning' = [configRunning EXCEPT ![d] = TRUE]
    /\ rpdoDone' = [rpdoDone EXCEPT ![d] = 0]
    /\ lastInference' = NoInference
    /\ UNCHANGED <<binaryDcf, rpdoControl, masterNodeConfig, masterCobConfig,
                   firstClaimer>>
    /\ UNCHANGED <<deriveVars, bootVars, configVars, motorVars>>

\* configureSDO of driver d reaches its next RPDO control object
FollowRpdoControl(d) ==
    /\ configRunning[d]
    /\ rpdoDone[d] < Len(rpdoControl[d])
    /\ LET word == rpdoControl[d][rpdoDone[d] + 1]
           fs == configureFollowerRelationshipText(followerState, d, word)
       IN  /\ m_followingNodeID' = fs.following
           /\ m_followsNodeID' = fs.follows
           /\ m_firstNodeIDUsing_RPDO_COB_ID' = fs.first
           /\ lastInference' =
                 [node |-> d, cobID |-> word.lo,
                  first |-> getFirstNodeIDUsing_RPDO_COB_ID(
                                m_firstNodeIDUsing_RPDO_COB_ID, word.lo)]
           /\ firstClaimer' =
                 IF firstClaimer[word.lo] = 0
                 THEN [firstClaimer EXCEPT ![word.lo] = d]
                 ELSE firstClaimer
    /\ rpdoDone' = [rpdoDone EXCEPT ![d] = @ + 1]
    /\ UNCHANGED <<binaryDcf, rpdoControl, masterNodeConfig, masterCobConfig,
                   configRunning>>
    /\ UNCHANGED <<deriveVars, bootVars, configVars, motorVars>>

\* the configuration of driver d ends: res is called, with or without error
FollowConfigCompleted(d) ==
    /\ configRunning[d]
    /\ configRunning' = [configRunning EXCEPT ![d] = FALSE]
    /\ lastInference' = NoInference
    /\ UNCHANGED <<binaryDcf, rpdoControl, masterNodeConfig, masterCobConfig,
                   m_followingNodeID, m_followsNodeID,
                   m_firstNodeIDUsing_RPDO_COB_ID, rpdoDone, firstClaimer>>
    /\ UNCHANGED <<deriveVars, bootVars, configVars, motorVars>>

FollowNext ==
    \E d \in Nodes :
        \/ FollowOnConfig(d)
        \/ FollowRpdoControl(d)
        \/ FollowConfigCompleted(d)

SpecFollower == FollowInit /\ [][FollowNext]_vars

(***************************************************************************)
(* DCFDriver configuration engine: configure, configureSDO, configurePDO,  *)
(* configureParameterSDO, copyObject and setObject of one textual-DCF      *)
(* driver (no clear-configuration strategy installed).  The nested         *)
(* callbacks of the code are the phases of a position pc in the list:      *)
(*   object         configureSDO(objectToSend)                             *)
(*   param          configureParameterSDO of a parameter, sub-index k      *)
(*   read           SubmitRead of I:1                                      *)
(*   invalid        setObject I:1 = valueFromDevice | 0x80000000           *)
(*   type           copyObject I:2                                         *)
(*   inhibit        copyObject I:3, ignoreMissingSourceSDO                 *)
(*   clear          setObject (I + 0x200):0 = 0                            *)
(*   writeMappings  the writeMappings lambda                               *)
(*   mapsub         configureParameterSDO of the mapping, sub-index k      *)
(*   mapcnt         copyObject (I + 0x200):0                               *)
(*   enable         copyObject I:1 with resultHandler                      *)
(* Every handler makes at most one read of the local object dictionary;    *)
(* its outcome is the input loc.  The local value of I:1 of an RPDO        *)
(* control object is the one the follower inference has read.              *)
(***************************************************************************)
RECEIVE_PDO_CONTROL_START == 5120
RECEIVE_PDO_CONTROL_END == 5631
RECEIVE_PDO_MAPPING_START == 5632
RECEIVE_PDO_MAPPING_END == 6143
TRANSMIT_PDO_CONTROL_START == 6144
TRANSMIT_PDO_CONTROL_END == 6655
TRANSMIT_PDO_MAPPING_START == 6656
TRANSMIT_PDO_MAPPING_END == 7167

\* SDO abort codes 0x06020000, 0x06090011 and 0x08000020 (SdoErrc::DATA)
SDO_NO_OBJ == 100794368
SDO_NO_SUB == 101253137
SDO_DATA == 134217760
\* other abort codes: 0x06070010 for a local read, 0x05040000 on the bus
LocalReadErrors == {SDO_NO_OBJ, SDO_NO_SUB, 101122064}
RemoteErrors == {84148224}

\* the node ID of the driver under configuration
ConfigNode == 1

Zero == [hi |-> 0, lo |-> 0]
DeviceWords == {[hi |-> 0, lo |-> 513], [hi |-> 4, lo |-> 513]}
LocalValues == {[hi |-> 0, lo |-> 385]}

\* the value written back as it was read
KeepWord(word) == word

\* value | 0x80000000
OrValidBit(word) ==
    [word EXCEPT !.hi = IF (@ \div 4) % 2 = 1 THEN @ ELSE @ + 4]

\* outcome of config->Read for one sub-object
LocalOutcomes ==
    {[ec |-> 0, val |-> v] : v \in LocalValues}
    \cup {[ec |-> e, val |-> Zero] : e \in LocalReadErrors}

\* a dictionary in which every type is one of the seven of the switch
getTypeOfObjectSupported(sdoIndex, sdoSubIndex) == "supported"

\* getTypeOfObject followed by the switch of configureParameterSDO: is the
\* type one of the seven that copyObject is instantiated for
getTypeOfObject(sdoIndex, sdoSubIndex) ==
    IF <<sdoIndex, sdoSubIndex>> \in unsupportedTypes
    THEN "unsupported" ELSE "supported"

ConfigError(kind, index, sub, value) ==
    [value |-> value, kind |-> kind, index |-> index, sub |-> sub]

isRpdoControl(index) ==
    index >= RECEIVE_PDO_CONTROL_START /\ index <= RECEIVE_PDO_CONTROL_END

isTpdoControl(index) ==
    index >= TRANSMIT_PDO_CONTROL_START /\ index <= TRANSMIT_PDO_CONTROL_END

\* a configureSDO without the branch for mapping objects
isMappingIndexNever(index) == FALSE

\* third branch of configureSDO, reached after the two control branches
isMappingIndex(index) ==
    index >= RECEIVE_PDO_MAPPING_START /\ index <= TRANSMIT_PDO_MAPPING_END

\* a copyObject called without onErrorFunction everywhere
hasOnErrorFunctionNever(phase) == FALSE

\* the copyObject calls of configurePDO that pass onErrorFunction
hasOnErrorFunction(phase) == phase \in {"type", "inhibit", "mapcnt"}

\* std::find_if over m_sdosToConfigure: position of the object, 0 for end()
findObject(index) ==
    LET found == {i \in DOMAIN m_sdosToConfigure :
                     m_sdosToConfigure[i].index = index}
    IN  IF found = {} THEN 0 ELSE Min(found)

\* what a handler does: submit a request, or call res
Issue(op, index, sub, val, pc) ==
    [req |-> <<[op |-> op, index |-> index, sub |-> sub, val |-> val,
                pc |-> pc]>>,
     res |-> <<>>, localFailure |-> NoFailure, inferred |-> 0]

Finish(result) ==
    [req |-> <<>>, res |-> <<result>>, localFailure |-> NoFailure,
     inferred |-> 0]

FinishLocal(error) ==
    [req |-> <<>>, res |-> <<error>>, localFailure |-> error, inferred |-> 0]

\* a mutant of copyObject: the two errors of a missing object are ignored
\* whatever ignoreMissingSourceSDO is
copyObjectIgnoringMissing(index, sub, loc, pc, ignoreMissingSourceSDO, onCompleted) ==
    IF loc.ec \in {SDO_NO_OBJ, SDO_NO_SUB}
    THEN onCompleted
    ELSE IF loc.ec # 0
         THEN FinishLocal(ConfigError("READ_LOCAL_VALUE", index, sub, loc.ec))
         ELSE Issue("write", index, sub, loc.val, pc)

\* copyObject up to SubmitWrite.  onCompleted is what
\* onCompletedFunction(std::error_code()) does; a local read error reaches
\* res through onErrorFunction or through the handler given as
\* onCompletedFunction, which all pass an error on.
copyObject(index, sub, loc, pc, ignoreMissingSourceSDO, onCompleted) ==
    IF ignoreMissingSourceSDO /\ loc.ec \in {SDO_NO_OBJ, SDO_NO_SUB}
    THEN onCompleted
    ELSE IF loc.ec # 0
         THEN FinishLocal(ConfigError("READ_LOCAL_VALUE", index, sub, loc.ec))
         ELSE Issue("write", index, sub, loc.val, pc)

\* configureParameterSDO up to SubmitWrite, for sub-index k of object
configureParameterSDO(object, pc, loc) ==
    LET subIndex == object.subs[pc.k]
    IN  IF getTypeOfObject(object.index, subIndex) = "unsupported"
        THEN FinishLocal(ConfigError("WRITE_REMOTE_SDO", object.index,
                                     subIndex, SDO_DATA))
        ELSE copyObject(object.index, subIndex, loc, pc, FALSE, Finish(Success))

\* the local value of I:1 with the invalid bit forced
localRpdoCobIdInvalid == OrValidBit(rpdoControl[ConfigNode][1])

\* config->Read<uint32_t>(I, 1) of the RPDO control object of the list
localRpdoCobId == rpdoControl[ConfigNode][1]

\* setObject (I + 0x200):0 = 0
clearMappings(index, pc) ==
    Issue("write", index + 512, 0, Zero, [pc EXCEPT !.phase = "clear"])

\* the engine arrives at position pc: it submits the request of pc, moves on
\* without a request, or ends the run
RECURSIVE Arrive(_, _)
Arrive(pc, loc) ==
    LET index == m_sdosToConfigure[pc.obj].index
        mappingSDO == findObject(index + 512)
        at(phase) == [pc EXCEPT !.phase = phase]
    IN  CASE pc.phase = "object" ->
               IF pc.obj > Len(m_sdosToConfigure)
               THEN Finish(Success)
               ELSE IF isRpdoControl(index)
               THEN [Issue("read", index, 1, Zero, at("read"))
                        EXCEPT !.inferred = pc.obj]
               ELSE IF isTpdoControl(index)
               THEN Issue("read", index, 1, Zero, at("read"))
               ELSE IF isMappingIndex(index)
               THEN Arrive([pc EXCEPT !.obj = @ + 1], loc)
               ELSE Arrive([pc EXCEPT !.phase = "param", !.k = 1], loc)
          [] pc.phase = "param" ->
               configureParameterSDO(m_sdosToConfigure[pc.obj], pc, loc)
          [] pc.phase = "type" ->
               copyObject(index, 2, loc, pc, FALSE, Finish(Success))
          [] pc.phase = "inhibit" ->
               copyObject(index, 3, loc, pc, TRUE, clearMappings(index, pc))
          [] pc.phase = "writeMappings" ->
               IF mappingSDO = 0
               THEN Arrive(at("enable"), loc)
               ELSE IF Len(m_sdosToConfigure[mappingSDO].subs) > 1
               THEN Arrive([pc EXCEPT !.phase = "mapsub", !.k = 2], loc)
               ELSE IF Len(m_sdosToConfigure[mappingSDO].subs) > 0
               THEN Arrive(at("mapcnt"), loc)
               ELSE Arrive(at("enable"), loc)
          [] pc.phase = "mapsub" ->
               configureParameterSDO(m_sdosToConfigure[mappingSDO], pc, loc)
          [] pc.phase = "mapcnt" ->
               copyObject(index + 512, 0, loc, pc, FALSE, Finish(Success))
          [] pc.phase = "enable" ->
               IF isRpdoControl(index)
               THEN Issue("write", index, 1, localRpdoCobId, pc)
               ELSE copyObject(index, 1, loc, pc, FALSE, Finish(Success))

\* the completion callback of request req runs with error code ec (0 for
\* success) and, for a read, valueFromDevice
Completed(req, ec, valueFromDevice, loc) ==
    LET pc == req.pc
        index == m_sdosToConfigure[pc.obj].index
        at(phase) == [pc EXCEPT !.phase = phase]
        failed(kind) == Finish(ConfigError(kind, req.index, req.sub, ec))
        subIndices ==
            IF pc.phase = "param"
            THEN m_sdosToConfigure[pc.obj].subs
            ELSE m_sdosToConfigure[findObject(index + 512)].subs
    IN  CASE pc.phase = "read" ->
               IF ec # 0
               THEN failed("READ_REMOTE_SDO")
               ELSE Issue("write", index, 1, OrValidBit(valueFromDevice),
                          at("invalid"))
          [] pc.phase = "invalid" ->
               IF ec # 0 THEN failed("WRITE_REMOTE_SDO")
               ELSE Arrive(at("type"), loc)
          [] pc.phase = "type" ->
               IF ec # 0 /\ hasOnErrorFunction(pc.phase)
               THEN failed("WRITE_REMOTE_SDO")
               ELSE Arrive(at("inhibit"), loc)
          [] pc.phase = "inhibit" ->
               IF ec # 0 /\ hasOnErrorFunction(pc.phase)
               THEN failed("WRITE_REMOTE_SDO")
               ELSE clearMappings(index, pc)
          [] pc.phase = "clear" ->
               IF ec # 0 THEN failed("WRITE_REMOTE_SDO")
               ELSE Arrive(at("writeMappings"), loc)
          [] pc.phase = "mapsub" ->
               IF ec # 0 THEN failed("WRITE_REMOTE_SDO")
               ELSE IF pc.k + 1 <= Len(subIndices)
               THEN Arrive([pc EXCEPT !.k = @ + 1], loc)
               ELSE Arrive(at("mapcnt"), loc)
          [] pc.phase = "mapcnt" ->
               IF ec # 0 /\ hasOnErrorFunction(pc.phase)
               THEN failed("WRITE_REMOTE_SDO")
               ELSE Arrive(at("enable"), loc)
          [] pc.phase = "enable" ->
               IF ec # 0 THEN failed("WRITE_REMOTE_SDO")
               ELSE Arrive([obj |-> pc.obj + 1, phase |-> "object", k |-> 0],
                           loc)
          [] pc.phase = "param" ->
               IF ec # 0 THEN failed("WRITE_REMOTE_SDO")
               ELSE IF pc.k + 1 <= Len(subIndices)
               THEN Arrive([pc EXCEPT !.k = @ + 1], loc)
               ELSE Arrive([obj |-> pc.obj + 1, phase |-> "object", k |-> 0],
                           loc)

\* largest sub-index of an object of the configured-objects list
MaxSubIndex == 2

\* the object indices of the model, ascending as CODev::getIdx returns them:
\* 0x1017, 0x1400, 0x1600, 0x1800, 0x1A00, 0x6081
ObjectIndices == <<4119, 5120, 5632, 6144, 6656, 24705>>

\* ascending, non-empty lists of sub-indices
SubIndexLists ==
    {s \in UNION {[1 .. n -> 0 .. MaxSubIndex] : n \in 1 .. MaxSubIndex + 1} :
        \A i \in 1 .. Len(s) - 1 : s[i] < s[i + 1]}

\* the sub-index lists an object may have in the list; << >> when absent
SubIndexChoices(index) ==
    IF isRpdoControl(index) \/ isTpdoControl(index)
    THEN {<<>>, <<1, 2>>}
    ELSE IF index = RECEIVE_PDO_MAPPING_START
         THEN {<<>>} \cup SubIndexLists
         ELSE IF index = ObjectIndices[1]
              THEN {<<>>, <<0>>}
              ELSE {<<>>, <<0>>, <<1, 2>>}

RECURSIVE ObjectsList(_, _)
ObjectsList(choice, i) ==
    IF i > Len(ObjectIndices)
    THEN <<>>
    ELSE (IF choice[i] = <<>>
          THEN <<>>
          ELSE <<[index |-> ObjectIndices[i], subs |-> choice[i]]>>)
         \o ObjectsList(choice, i + 1)

\* the listed sub-indices of the parameter objects.  The PDO communication
\* and mapping objects have the types of CiA-301 (UNSIGNED8, UNSIGNED32).
ParameterSubIndices ==
    UNION {{<<m_sdosToConfigure[i].index, m_sdosToConfigure[i].subs[k]>> :
               k \in DOMAIN m_sdosToConfigure[i].subs} :
           i \in {j \in DOMAIN m_sdosToConfigure :
                     /\ ~isRpdoControl(m_sdosToConfigure[j].index)
                     /\ ~isTpdoControl(m_sdosToConfigure[j].index)
                     /\ ~isMappingIndex(m_sdosToConfigure[j].index)}}

\* the lists of specification SpecConfig
ConfigLists ==
    {ObjectsList(<<c1, c2, c3, c4, c5, c6>>, 1) :
        c1 \in SubIndexChoices(ObjectIndices[1]),
        c2 \in SubIndexChoices(ObjectIndices[2]),
        c3 \in SubIndexChoices(ObjectIndices[3]),
        c4 \in SubIndexChoices(ObjectIndices[4]),
        c5 \in SubIndexChoices(ObjectIndices[5]),
        c6 \in SubIndexChoices(ObjectIndices[6])}

\* a driver as constructed: a list out of lists, a clear-configuration
\* strategy installed or not, a binary DCF file configured or not
ConfigStart(lists, strategies, binaries) ==
    /\ m_sdosToConfigure \in lists
    /\ m_clearConfigurationStrategy \in strategies
    /\ \E binary \in binaries :
          binaryDcf = [d \in Nodes |-> d = ConfigNode /\ binary]
    /\ \E word \in RpdoWords :
          rpdoControl =
             [d \in Nodes |->
                 IF d = ConfigNode /\ findObject(RECEIVE_PDO_CONTROL_START) # 0
                 THEN <<word>> ELSE <<>>]
    /\ configStarted = FALSE
    /\ outstanding = {}
    /\ sdoLog = <<>>
    /\ resCalls = <<>>
    /\ firstFailure = NoFailure
    /\ requestsAtFailure = 0
    /\ \E word \in DeviceWords :
          remoteCobId =
             [I \in {m_sdosToConfigure[i].index : i \in
                        {j \in DOMAIN m_sdosToConfigure :
                            \/ isRpdoControl(m_sdosToConfigure[j].index)
                            \/ isTpdoControl(m_sdosToConfigure[j].index)}}
                 |-> word]
    /\ completedOk = {}
    /\ unsupportedTypes \in SUBSET ParameterSubIndices
    /\ strategyPending = FALSE
    /\ strategyResult = NoResult
    /\ dcfOutstanding = FALSE
    /\ dcfSubmitted = 0
    /\ dcfResult = NoResult
    /\ masterNodeConfig = <<>>
    /\ masterCobConfig = <<>>
    /\ m_followingNodeID = [d \in Nodes |-> 0]
    /\ m_followsNodeID = [d \in Nodes |-> 0]
    /\ m_firstNodeIDUsing_RPDO_COB_ID = [c \in CobIds |-> 0]
    /\ configRunning = [d \in Nodes |-> FALSE]
    /\ rpdoDone = [d \in Nodes |-> 0]
    /\ lastInference = NoInference
    /\ firstClaimer = [c \in CobIds |-> 0]
    /\ DeriveIdle
    /\ BootIdle
    /\ MotorIdle

ConfigInit == ConfigStart(ConfigLists, {FALSE}, {FALSE})

\* the requests of out enter the log and the outstanding set, the calls of
\* res are recorded, and configureFollowerRelationship runs for an RPDO
\* control object that configureSDO has reached
Submitted(out, from) ==
    [i \in 1 .. Len(out.req) |->
        [seq |-> Len(sdoLog) + i, op |-> out.req[i].op,
         index |-> out.req[i].index, sub |-> out.req[i].sub,
         val |-> out.req[i].val, pc |-> out.req[i].pc, from |-> from]]

Logged(requests) ==
    [i \in DOMAIN requests |->
        [op |-> requests[i].op, index |-> requests[i].index,
         sub |-> requests[i].sub, turn |-> requests[i].pc.obj,
         from |-> requests[i].from]]

InferredFrom(fs0, out) ==
    LET fs == IF out.inferred = 0
              THEN fs0
              ELSE configureFollowerRelationshipText(fs0, ConfigNode,
                                                     rpdoControl[ConfigNode][1])
    IN  /\ m_followingNodeID' = fs.following
        /\ m_followsNodeID' = fs.follows
        /\ m_firstNodeIDUsing_RPDO_COB_ID' = fs.first

Inferred(out) == InferredFrom(followerState, out)

\* DCFDriver::configure
configure(loc) ==
    IF Len(m_sdosToConfigure) > 0
    THEN Arrive([obj |-> 1, phase |-> "object", k |-> 0], loc)
    ELSE Finish(Success)

\* std::error_code values a clear-configuration strategy reports
Canceled == [value |-> 125, kind |-> "generic", index |-> 0, sub |-> 0]
StrategyFailure == [value |-> 5, kind |-> "generic", index |-> 0, sub |-> 0]
StrategyResults == {Success, Canceled, StrategyFailure}

\* ec == std::errc::operation_canceled
operation_canceled(ec) == ec.kind = "generic" /\ ec.value = 125

\* a callback that starts the configuration whatever the strategy reports
clearConfigurationCallbackIgnoring(ec) == "configure"

\* the callback handed to m_clearConfigurationStrategy
clearConfigurationCallback(ec) ==
    IF operation_canceled(ec)
    THEN "res success"
    ELSE IF ec.value # 0 THEN "res ec" ELSE "configure"

\* a download that does not look at the result of the configuration
submitsWriteDcfWhatever(error) ==
    m_clearConfigurationStrategy /\ binaryDcf[ConfigNode]

\* the callback handed to configure: res itself when no strategy is
\* installed, else the lambda that downloads the binary DCF file after a
\* configuration without error
submitsWriteDcf(error) ==
    /\ m_clearConfigurationStrategy
    /\ error.value = 0
    /\ binaryDcf[ConfigNode]

\* the calls of the callback of configure in out reach res or SubmitWriteDcf
Delivered(out) ==
    LET download == out.res # <<>> /\ submitsWriteDcf(out.res[1])
    IN  /\ resCalls' = resCalls \o (IF download THEN <<>> ELSE out.res)
        /\ dcfOutstanding' = (dcfOutstanding \/ download)
        /\ dcfSubmitted' = dcfSubmitted + (IF download THEN 1 ELSE 0)
        /\ dcfResult' = dcfResult

\* nothing is submitted and nothing is reported
Waiting ==
    [req |-> <<>>, res |-> <<>>, localFailure |-> NoFailure, inferred |-> 0]

\* DCFDriver::OnConfig: the inference of a binary driver, then configure(res)
\* or the call of the clear-configuration strategy
ConfigOnConfig(loc) ==
    /\ ~configStarted
    /\ LET fs0 == IF binaryDcf[ConfigNode]
                  THEN configureFollowerRelationshipBinary(followerState,
                           ConfigNode, masterNodeConfig, masterCobConfig)
                  ELSE followerState
           out == IF m_clearConfigurationStrategy THEN Waiting
                  ELSE configure(loc)
           requests == [i \in 1 .. Len(out.req) |->
                           [Submitted(out, 0)[i] EXCEPT !.seq = i]]
       IN  /\ outstanding' = {requests[i] : i \in DOMAIN requests}
           /\ sdoLog' = Logged(requests)
           /\ Delivered(out)
           /\ firstFailure' = out.localFailure
           /\ InferredFrom(fs0, out)
    /\ strategyPending' = m_clearConfigurationStrategy
    /\ strategyResult' = NoResult
    /\ requestsAtFailure' = 0
    /\ completedOk' = {}
    /\ configStarted' = TRUE
    /\ UNCHANGED <<m_sdosToConfigure, remoteCobId, unsupportedTypes,
                   m_clearConfigurationStrategy, binaryDcf, rpdoControl,
                   masterNodeConfig, masterCobConfig, configRunning, rpdoDone,
                   lastInference, firstClaimer>>
    /\ UNCHANGED <<deriveVars, bootVars, motorVars>>

\* the clear-configuration strategy calls its callback with ec
StrategyCompleted(ec, loc) ==
    /\ strategyPending
    /\ strategyPending' = FALSE
    /\ strategyResult' = ec
    /\ IF clearConfigurationCallback(ec) = "configure"
       THEN LET out == configure(loc)
                requests == Submitted(out, 0)
            IN  /\ outstanding' = {requests[i] : i \in DOMAIN requests}
                /\ sdoLog' = sdoLog \o Logged(requests)
                /\ Delivered(out)
                /\ firstFailure' = out.localFailure
                /\ Inferred(out)
       ELSE /\ resCalls' = resCalls \o
                  <<IF clearConfigurationCallback(ec) = "res success"
                    THEN Success ELSE ec>>
            /\ UNCHANGED <<outstanding, sdoLog, firstFailure, dcfOutstanding,
                           dcfSubmitted, dcfResult, m_followingNodeID, m_followsNodeID,
                           m_firstNodeIDUsing_RPDO_COB_ID>>
    /\ UNCHANGED <<m_sdosToConfigure, configStarted, requestsAtFailure,
                   remoteCobId, completedOk, unsupportedTypes,
                   m_clearConfigurationStrategy, binaryDcf, rpdoControl,
                   masterNodeConfig, masterCobConfig, configRunning, rpdoDone,
                   lastInference, firstClaimer>>
    /\ UNCHANGED <<deriveVars, bootVars, motorVars>>

\* the SDO request req completes and its callback runs
SdoComplete(req, ec, valueFromDevice, loc) ==
    /\ req \in outstanding
    /\ LET out == Completed(req, ec, valueFromDevice, loc)
           requests == Submitted(out, req.seq)
           failure ==
               IF ec # 0
               THEN ConfigError(IF req.op = "read" THEN "READ_REMOTE_SDO"
                                ELSE "WRITE_REMOTE_SDO",
                                req.index, req.sub, ec)
               ELSE out.localFailure
       IN  /\ outstanding' = (outstanding \ {req})
                                \cup {requests[i] : i \in DOMAIN requests}
           /\ sdoLog' = sdoLog \o Logged(requests)
           /\ Delivered(out)
           /\ firstFailure' =
                 IF firstFailure = NoFailure THEN failure ELSE firstFailure
           /\ requestsAtFailure' =
                 IF firstFailure = NoFailure /\ failure # NoFailure
                 THEN Len(sdoLog) ELSE requestsAtFailure
           /\ Inferred(out)
    /\ completedOk' = IF ec = 0 THEN completedOk \cup {req.seq}
                      ELSE completedOk
    /\ remoteCobId' =
          IF ec = 0 /\ req.op = "write" /\ req.sub = 1
                /\ req.index \in DOMAIN remoteCobId
          THEN [remoteCobId EXCEPT ![req.index] = req.val]
          ELSE remoteCobId
    /\ UNCHANGED <<m_sdosToConfigure, configStarted, unsupportedTypes,
                   m_clearConfigurationStrategy, strategyPending,
                   strategyResult, binaryDcf, rpdoControl,
                   masterNodeConfig, masterCobConfig, configRunning, rpdoDone,
                   lastInference, firstClaimer>>
    /\ UNCHANGED <<deriveVars, bootVars, motorVars>>

\* the std::error_code a download completes with
SdoResult(ec) == IF ec = 0 THEN Success ELSE ConfigError("sdo", 0, 0, ec)

\* the download SubmitWriteDcf started completes with ec
DcfDownloadComplete(ec) ==
    /\ dcfOutstanding
    /\ dcfOutstanding' = FALSE
    /\ dcfResult' = SdoResult(ec)
    /\ resCalls' = resCalls \o <<SdoResult(ec)>>
    /\ UNCHANGED <<m_sdosToConfigure, configStarted, outstanding, sdoLog,
                   firstFailure, requestsAtFailure, remoteCobId, completedOk,
                   unsupportedTypes, m_clearConfigurationStrategy,
                   strategyPending, strategyResult, dcfSubmitted>>
    /\ UNCHANGED <<deriveVars, bootVars, followVars, motorVars>>

ConfigNext ==
    \/ \E loc \in LocalOutcomes : ConfigOnConfig(loc)
    \/ \E req \in outstanding, ec \in {0} \cup RemoteErrors,
          loc \in LocalOutcomes :
             \E valueFromDevice \in
                   IF req.op = "read" THEN {remoteCobId[req.index]}
                   ELSE {Zero} :
                SdoComplete(req, ec, valueFromDevice, loc)

SpecConfig == ConfigInit /\ [][ConfigNext]_vars


(***************************************************************************)
(* Specification SpecOnConfig: DCFDriver::OnConfig with and without a      *)
(* clear-configuration strategy and a binary DCF file, over short lists.   *)
(***************************************************************************)
OnConfigChoices ==
    <<{<<>>, <<0>>}, {<<>>}, {<<>>}, {<<>>, <<1, 2>>}, {<<>>},
      {<<>>, <<1, 2>>}>>

OnConfigLists ==
    {ObjectsList(<<c1, c2, c3, c4, c5, c6>>, 1) :
        c1 \in OnConfigChoices[1], c2 \in OnConfigChoices[2],
        c3 \in OnConfigChoices[3], c4 \in OnConfigChoices[4],
        c5 \in OnConfigChoices[5], c6 \in OnConfigChoices[6]}

OnConfigInit == ConfigStart(OnConfigLists, BOOLEAN, BOOLEAN)

OnConfigNext ==
    \/ ConfigNext
    \/ \E ec \in StrategyResults, loc \in LocalOutcomes :
          StrategyCompleted(ec, loc)
    \/ \E ec \in {0} \cup RemoteErrors : DcfDownloadComplete(ec)

SpecOnConfig == OnConfigInit /\ [][OnConfigNext]_vars

(***************************************************************************)
(* MotorDriver: the user operations, the idle continuations, setState and  *)
(* the handlers of status words, SDO completions, posted tasks and NMT     *)
(* events.  The motor fields of all drivers are gathered in one record so  *)
(* that a handler is the composition of the functions it calls.            *)
(***************************************************************************)
\* the drivers of the demo: node 3, and node 4 which may follow it
MainNode == 3
FollowerNode == 4
MotorNodes == {MainNode, FollowerNode}

\* status words a drive reports: fault; switched off; switched on with
\* operation disabled; operation enabled; operation enabled with OMS1; with
\* TARGET_REACHED; with TARGET_REACHED and OMS1
MotorStatusWords == {8, 33, 51, 55, 4151, 1079, 5175}

\* the arguments of the move() calls of demoFollowerMove / demoHomingAndMove
MoveArguments ==
    {[mode |-> 64, position |-> 100000, speed |-> 10000, accel |-> 1000,
      deaccel |-> 1000],
     [mode |-> 0, position |-> 0, speed |-> 20000, accel |-> 1000,
      deaccel |-> 1000]}

\* the arguments of the home() call of demoHomingAndMove
HomeArguments ==
    {[method |-> 21, researchSpeed |-> 5000, releaseSpeed |-> 10000,
      accel |-> 1000, offset |-> 5000]}

\* bitwise or of two uint16_t
RECURSIVE BitOr(_, _)
BitOr(a, b) ==
    IF a = 0 THEN b
    ELSE IF b = 0 THEN a
    ELSE (IF a % 2 = 1 \/ b % 2 = 1 THEN 1 ELSE 0)
            + 2 * BitOr(a \div 2, b \div 2)

motorState ==
    [m_state |-> m_state, m_mainNodeState |-> m_mainNodeState,
     m_followingNodeState |-> m_followingNodeState,
     m_statusWord |-> m_statusWord, m_callbackOnIDLE |-> m_callbackOnIDLE,
     m_currentMoveMode |-> m_currentMoveMode,
     m_moveToPosition |-> m_moveToPosition, m_moveSpeed |-> m_moveSpeed,
     m_moveAcceleration |-> m_moveAcceleration,
     m_moveDeacceleration |-> m_moveDeacceleration,
     m_masterNmtState |-> m_masterNmtState,
     m_nodeNmtState |-> m_nodeNmtState,
     m_emergencyOccured |-> m_emergencyOccured,
     posted |-> posted, sdoQueue |-> sdoQueue, timers |-> timers,
     busLog |-> busLog, invoked |-> invoked, errorCalls |-> errorCalls,
     trace |-> trace, nestedSetState |-> nestedSetState, running |-> {}]

\* a write or read on the bus, or an NMT command, enters the log
BusEntry(d, via, index, sub, val) ==
    [node |-> d, via |-> via, index |-> index, sub |-> sub, val |-> val]

\* the callbacks given to SubmitWrite, SubmitRead and the setters
NullCallback == [kind |-> "nullptr", k |-> 0]
HomingCallback == [kind |-> "start homing", k |-> 0]
FaultCallback == [kind |-> "fault register", k |-> 0]
ExecuteMoveCallback == [kind |-> "executeMove", k |-> 0]
PrepareMoveCallback(k) == [kind |-> "prepareMove", k |-> k]

\* SubmitWrite: the request is sent to node d and cont is its callback.  The
\* completion of a request without callback runs no code of the driver, so
\* only a request with a callback waits in sdoQueue for its completion.
SubmitWrite(M, d, index, sub, val, cont) ==
    [M EXCEPT !.busLog = Append(@, BusEntry(d, "sdo", index, sub, val)),
              !.sdoQueue[d] = IF cont = NullCallback THEN @
                              ELSE Append(@, cont)]

\* SubmitRead
SubmitRead(M, d, index, sub, cont) ==
    [M EXCEPT !.busLog = Append(@, BusEntry(d, "read", index, sub, 0)),
              !.sdoQueue[d] = Append(@, cont)]

\* a setter made by createMappedTpdoSetter or createMasterSDOSetter writes
\* the value where the PDO takes it from and calls back at once
PdoWrite(M, d, index, val) ==
    [M EXCEPT !.busLog = Append(@, BusEntry(d, "pdo", index, 0, val))]

\* isSetterOK with an error: m_errorCallback(WRTIE_TO_NODE_ERROR, message)
setterFailed(M) ==
    [M EXCEPT !.errorCalls = Append(@, "WRTIE_TO_NODE_ERROR")]

\* the object and the value of the k-th setter call of prepareMove
prepareMoveIndex(k) ==
    <<24672, 24640, 24698, 24705, 24707, 24708, 24640>>[k]

prepareMoveValue(M, d, k) ==
    <<1, 7, M.m_moveToPosition[d], M.m_moveSpeed[d],
      M.m_moveAcceleration[d], M.m_moveDeacceleration[d],
      BitOr(M.m_currentMoveMode[d], 287)>>[k]

\* the number of setter calls of prepareMove
PrepareMoveSetters == 7

RECURSIVE prepareMoveFrom(_, _, _, _)

\* a mutant of prepareMove: a callback that gets an error reports it and
\* calls the next setter all the same
prepareMoveFromAnyway(M, d, k, fail) ==
    IF k > PrepareMoveSetters
    THEN M
    ELSE IF setterFamily = "sdo"
         THEN SubmitWrite(M, d, prepareMoveIndex(k), 0,
                          prepareMoveValue(M, d, k), PrepareMoveCallback(k))
         ELSE prepareMoveFrom(
                 IF fail = k
                 THEN setterFailed(M)
                 ELSE PdoWrite(M, d, prepareMoveIndex(k),
                               prepareMoveValue(M, d, k)),
                 d, k + 1, fail)

\* prepareMove from its k-th setter on.  With SDO setters the next setter is
\* called when the write has completed; with PDO setters the callbacks run
\* at once, and the setter numbered fail reports an error.
prepareMoveFrom(M, d, k, fail) ==
    IF k > PrepareMoveSetters
    THEN M
    ELSE IF setterFamily = "sdo"
         THEN SubmitWrite(M, d, prepareMoveIndex(k), 0,
                          prepareMoveValue(M, d, k), PrepareMoveCallback(k))
         ELSE IF fail = k
              THEN setterFailed(M)
              ELSE prepareMoveFrom(
                      PdoWrite(M, d, prepareMoveIndex(k),
                               prepareMoveValue(M, d, k)),
                      d, k + 1, fail)

\* MotorDriver::prepareMove
prepareMove(M, d, fail) ==
    prepareMoveFrom(
        IF m_followingNodeID[d] # 0
        THEN [M EXCEPT !.m_followingNodeState[d] = "PREPARE_MOVE"]
        ELSE M,
        d, 1, fail)

\* MotorDriver::executeMove
executeMove(M, d, fail) ==
    LET val == BitOr(M.m_currentMoveMode[d], 15)
    IN  IF setterFamily = "sdo"
        THEN SubmitWrite(M, d, 24640, 0, val, ExecuteMoveCallback)
        ELSE IF fail # 0 THEN setterFailed(M)
             ELSE PdoWrite(M, d, 24640, val)

\* m_communicationConfig.motorControlWordSetter(0x0007, nullptr)
disableOperation(M, d, fail) ==
    IF setterFamily = "sdo"
    THEN SubmitWrite(M, d, 24640, 0, 7, NullCallback)
    ELSE IF fail # 0 THEN M ELSE PdoWrite(M, d, 24640, 7)

\* the entries of m_callbackOnIDLE: the callback of the user, numbered by
\* the call that brought it, and the continuations move() and home() queue
UserCallback(n) == [kind |-> "user", n |-> n, args |-> <<>>]
StartMove == [kind |-> "prepareMove", n |-> 0, args |-> <<>>]
StartHoming(args) == [kind |-> "prepareHoming", n |-> 0, args |-> <<args>>]

\* MotorDriver::addCallbackOnIdle: push_front, the back is the oldest
addCallbackOnIdle(M, d, callback) ==
    [M EXCEPT !.m_callbackOnIDLE[d] = Append(@, callback)]

RECURSIVE setState(_, _, _, _)

\* a mutant of the continuation move() queues: it changes the state at once,
\* not by a task posted to the executor
invokeCallbackAtOnce(M, d, callback) ==
    IF callback.kind = "user"
    THEN [M EXCEPT !.invoked = Append(@, callback.n)]
    ELSE IF callback.kind = "prepareMove"
    THEN setState(IF m_followingNodeID[d] # 0
                  THEN [M EXCEPT !.m_mainNodeState[d] = "PREPARE_MOVE"]
                  ELSE M,
                  d, "PREPARE_MOVE", 0)
    ELSE [M EXCEPT !.posted =
             Append(@, [task |-> callback.kind, node |-> d,
                        args |-> callback.args, state |-> "none"])]

\* an entry of m_callbackOnIDLE is called
invokeCallback(M, d, callback) ==
    IF callback.kind = "user"
    THEN [M EXCEPT !.invoked = Append(@, callback.n)]
    ELSE [M EXCEPT !.posted =
             Append(@, [task |-> callback.kind, node |-> d,
                        args |-> callback.args, state |-> "none"])]

\* a mutant of processOldestCallbackOnIdle: the newest entry is taken
processNewestCallbackOnIdle(M, d) ==
    LET q == M.m_callbackOnIDLE[d]
    IN  IF q = <<>>
        THEN M
        ELSE [invokeCallback(M, d, q[Len(q)])
                 EXCEPT !.m_callbackOnIDLE[d] = SubSeq(q, 1, Len(q) - 1)]

\* MotorDriver::processOldestCallbackOnIdle
processOldestCallbackOnIdle(M, d) ==
    LET q == M.m_callbackOnIDLE[d]
    IN  IF q = <<>>
        THEN M
        ELSE [invokeCallback(M, d, Head(q))
                 EXCEPT !.m_callbackOnIDLE[d] = Tail(q)]

\* MotorDriver::handleFault
handleFault(M, d) ==
    IF ~M.m_emergencyOccured[d]
    THEN SubmitRead(M, d, 24639, 0, FaultCallback)
    ELSE M

\* GetExecutor().post([this]() { setState(state); })
postSetState(M, d, state) ==
    [M EXCEPT !.posted = Append(@, [task |-> "setState", node |-> d,
                                     args |-> <<>>, state |-> state])]

\* a mutant of performFaultReset: the fault flag of the drive is not reset
performFaultResetWithoutWrite(M, d) ==
    postSetState(M, d, "CYCLE_POWER_SHUTDOWN")

\* MotorDriver::performFaultReset
performFaultReset(M, d) ==
    LET recoveryFrom ==
            determineStateFromStatusWord("INITIAL_STATE", M.m_statusWord[d], d)
    IN  IF recoveryFrom = "FAULT_STATE"
        THEN SubmitWrite(M, d, 24640, 0, 128, NullCallback)
        ELSE IF recoveryFrom = "INITIAL_POWER_ON"
        THEN postSetState(M, d, "CYCLE_POWER_SHUTDOWN")
        ELSE IF recoveryFrom = "INITIAL_POWER_OFF"
        THEN postSetState(M, d, "POWER_ON_DISABLE_OPERATION")
        ELSE M

\* the switch of setState: what entering newState does
onEnter(M, d, newState, fail) ==
    CASE newState = "CYCLE_POWER_SHUTDOWN" ->
            SubmitWrite(M, d, 24640, 0, 6, NullCallback)
      [] newState = "POWER_ON_DISABLE_OPERATION" -> disableOperation(M, d, fail)
      [] newState = "PREPARE_MOVE" -> prepareMove(M, d, fail)
      [] newState = "READY_TO_MOVE" -> executeMove(M, d, fail)
      [] newState = "READY_FOR_HOMING" ->
            SubmitWrite(M, d, 24640, 0, 31, HomingCallback)
      [] newState = "IDLE" -> processOldestCallbackOnIdle(M, d)
      [] newState = "FAULT_STATE" ->
            LET M1 == [M EXCEPT !.m_callbackOnIDLE[d] = <<>>]
            IN  IF M.m_state[d] # "INITIAL_STATE" THEN handleFault(M1, d)
                ELSE M1
      [] newState = "FAULT_RESET" -> performFaultReset(M, d)
      [] newState = "NODE_RESET" ->
            \* master.Command(NmtCommand::RESET_NODE, id()): command 0x81
            [M EXCEPT !.busLog = Append(@, BusEntry(d, "nmt", 0, 0, 129))]
      [] OTHER -> M

\* a mutant of setState: m_state is assigned before the switch runs
setStateAssignsFirst(M, d, newState, fail) ==
    LET entered == [M EXCEPT !.nestedSetState = @ \/ d \in M.running]
    IN  IF M.m_state[d] # newState
        THEN [onEnter([entered EXCEPT !.running = @ \cup {d},
                                      !.m_state[d] = newState],
                      d, newState, fail)
                 EXCEPT !.trace[d] = Append(@, newState),
                        !.running = M.running]
        ELSE entered

\* MotorDriver::setState: the switch runs while m_state still is the old
\* state, m_state is assigned after it.  M.running holds the drivers whose
\* setState has not returned yet.
setState(M, d, newState, fail) ==
    LET entered == [M EXCEPT !.nestedSetState = @ \/ d \in M.running]
    IN  IF M.m_state[d] # newState
        THEN [onEnter([entered EXCEPT !.running = @ \cup {d}], d, newState,
                      fail)
                 EXCEPT !.m_state[d] = newState,
                        !.trace[d] = Append(@, newState),
                        !.running = M.running]
        ELSE entered

isRelevantStateForFollowerRelationship(s) ==
    s \in {"PREPARE_MOVE", "READY_TO_MOVE", "MOVING", "IDLE"}

\* MotorDriver::handleStatusWordChange
\* a mutant of aggregateReadyToMove: one drive that is ready suffices
aggregateReadyToMoveEither(main, foll) ==
    main = "READY_TO_MOVE" \/ foll = "READY_TO_MOVE"

\* m_mainNodeState == READY_TO_MOVE && m_followingNodeState == READY_TO_MOVE
aggregateReadyToMove(main, foll) ==
    main = "READY_TO_MOVE" /\ foll = "READY_TO_MOVE"

handleStatusWordChange(M, d, statusWord, statusWordOfFollowerChanged, fail) ==
    LET M0 == IF ~statusWordOfFollowerChanged
              THEN [M EXCEPT !.m_statusWord[d] = statusWord]
              ELSE M
    IN  IF m_followsNodeID[d] = 0
        THEN
          IF m_followingNodeID[d] = 0
          THEN setState(M0, d,
                        determineStateFromStatusWord(M0.m_state[d],
                                                     statusWord, d), fail)
          ELSE
            LET M1 ==
                  IF ~statusWordOfFollowerChanged
                  THEN [M0 EXCEPT !.m_mainNodeState[d] =
                           determineStateFromStatusWord(@, statusWord, d)]
                  ELSE [M0 EXCEPT !.m_followingNodeState[d] =
                           determineStateFromStatusWord(@, statusWord,
                                                        m_followingNodeID[d])]
                main == M1.m_mainNodeState[d]
                foll == M1.m_followingNodeState[d]
                cur == M1.m_state[d]
            IN  IF aggregateReadyToMove(main, foll) /\ cur = "PREPARE_MOVE"
                THEN setState(M1, d, "READY_TO_MOVE", fail)
                ELSE IF (main = "MOVING" \/ foll = "MOVING")
                           /\ cur = "READY_TO_MOVE"
                THEN setState(M1, d, "MOVING", fail)
                ELSE IF main = "IDLE" /\ foll = "IDLE"
                           /\ cur = "POWER_ON_DISABLE_OPERATION"
                THEN setState(M1, d, "IDLE", fail)
                ELSE IF ~statusWordOfFollowerChanged
                           /\ ~isRelevantStateForFollowerRelationship(main)
                THEN setState(M1, d, main, fail)
                ELSE M1
        ELSE
          IF ~statusWordOfFollowerChanged
          THEN LET nextState ==
                       determineStateFromStatusWord(M0.m_state[d],
                                                    statusWord, d)
               IN  IF \/ ~isRelevantStateForFollowerRelationship(nextState)
                      \/ (M0.m_state[d] = "POWER_ON_DISABLE_OPERATION"
                             /\ nextState = "IDLE")
                   THEN setState(M0, d, nextState, fail)
                   ELSE M0
          ELSE M0

\* a mutant of OnRpdoWrite: the main driver takes the status word of its
\* follower for its own
onRpdoWriteAsOwn(M, d, statusWord, fail) ==
    handleStatusWordChange(
        IF m_followsNodeID[d] > 0
        THEN handleStatusWordChange(M, m_followsNodeID[d], statusWord, FALSE,
                                    fail)
        ELSE M,
        d, statusWord, FALSE, fail)

\* MotorDriver::OnRpdoWrite for the status word: DCFDriver::OnRpdoWrite hands
\* the word of a follower to its main driver, then the driver handles it
onRpdoWrite(M, d, statusWord, fail) ==
    handleStatusWordChange(
        IF m_followsNodeID[d] > 0
        THEN handleStatusWordChange(M, m_followsNodeID[d], statusWord, TRUE,
                                    fail)
        ELSE M,
        d, statusWord, FALSE, fail)

\* a mutant of prepareMoveLambda: the main-node state is set whether or not
\* the driver has a follower
prepareMoveLambdaAlways(M, d, fail) ==
    setState([M EXCEPT !.m_mainNodeState[d] = "PREPARE_MOVE"],
             d, "PREPARE_MOVE", fail)

\* the lambda prepareMove of MotorDriver::move
prepareMoveLambda(M, d, fail) ==
    setState(IF m_followingNodeID[d] # 0
             THEN [M EXCEPT !.m_mainNodeState[d] = "PREPARE_MOVE"]
             ELSE M,
             d, "PREPARE_MOVE", fail)

\* MotorDriver::move, its first statements: the arguments are stored
moveParameters(M, d, args) ==
    [M EXCEPT !.m_currentMoveMode[d] = args.mode,
              !.m_moveToPosition[d] = args.position,
              !.m_moveSpeed[d] = args.speed,
              !.m_moveAcceleration[d] = args.accel,
              !.m_moveDeacceleration[d] = args.deaccel]

\* MotorDriver::move after the test m_state == IDLE, which gave sawIdle
moveFrom(M, d, n, sawIdle, fail) ==
    IF sawIdle
    THEN prepareMoveLambda(addCallbackOnIdle(M, d, UserCallback(n)), d, fail)
    ELSE addCallbackOnIdle(addCallbackOnIdle(M, d, StartMove), d,
                           UserCallback(n))

\* MotorDriver::move, called for the n-th time with callback n
move(M, d, args, n, fail) ==
    moveFrom(moveParameters(M, d, args), d, n, M.m_state[d] = "IDLE", fail)

\* the writes of MotorDriver::prepareHoming, in the order of the calls
\* a mutant of homingWrites: the homing mode is selected before the offset
\* is written
homingWritesModeFirst(args) ==
    <<<<24672, 0, 1>>, <<24728, 0, args.method>>,
      <<24729, 1, args.researchSpeed>>, <<24729, 2, args.releaseSpeed>>,
      <<24730, 0, args.accel>>, <<24672, 0, 6>>, <<24700, 0, args.offset>>,
      <<24640, 0, 15>>>>

homingWrites(args) ==
    <<<<24672, 0, 1>>, <<24728, 0, args.method>>,
      <<24729, 1, args.researchSpeed>>, <<24729, 2, args.releaseSpeed>>,
      <<24730, 0, args.accel>>, <<24700, 0, args.offset>>,
      <<24672, 0, 6>>, <<24640, 0, 15>>>>

RECURSIVE submitWrites(_, _, _, _)
submitWrites(M, d, writes, i) ==
    IF i > Len(writes) THEN M
    ELSE submitWrites(SubmitWrite(M, d, writes[i][1], writes[i][2],
                                  writes[i][3], NullCallback),
                      d, writes, i + 1)

\* MotorDriver::prepareHoming
prepareHoming(M, d, args, fail) ==
    submitWrites(setState(M, d, "PREPARE_HOMING", fail), d,
                 homingWrites(args), 1)

\* MotorDriver::home after the test m_state == IDLE, which gave sawIdle
homeFrom(M, d, args, n, sawIdle, fail) ==
    IF sawIdle
    THEN prepareHoming(addCallbackOnIdle(M, d, UserCallback(n)), d, args,
                       fail)
    ELSE addCallbackOnIdle(addCallbackOnIdle(M, d, StartHoming(args)), d,
                           UserCallback(n))

\* MotorDriver::home
home(M, d, args, n, fail) ==
    homeFrom(M, d, args, n, M.m_state[d] = "IDLE", fail)

\* a mutant of recoverFrom: the oldest idle continuation is called in every
\* state but FAULT_STATE and FAULT_RESET
recoverFromServingAlways(M, d, saw, fail) ==
    IF saw = "FAULT_STATE"
    THEN setState(M, d, "NODE_RESET", fail)
    ELSE IF saw = "FAULT_RESET"
    THEN [M EXCEPT !.timers[d] = @ + 1]
    ELSE processOldestCallbackOnIdle(M, d)

\* MotorDriver::recoverFromFault after addCallbackOnIdle, with m_state read
\* as saw
recoverFrom(M, d, saw, fail) ==
    IF saw = "FAULT_STATE"
    THEN setState(M, d, "NODE_RESET", fail)
    ELSE IF saw = "FAULT_RESET"
    THEN [M EXCEPT !.timers[d] = @ + 1]
    ELSE IF saw # "IDLE"
    THEN M
    ELSE processOldestCallbackOnIdle(M, d)

\* MotorDriver::recoverFromFault
recoverFromFault(M, d, n, fail) ==
    recoverFrom(addCallbackOnIdle(M, d, UserCallback(n)), d, M.m_state[d],
                fail)

\* MotorDriver::retriggerFaultReset
retriggerFaultReset(M, d, fail) ==
    IF M.m_state[d] = "FAULT_RESET"
    THEN setState(M, d, "NODE_RESET", fail)
    ELSE M

\* MotorDriver::handleInitialStateSwitching
handleInitialStateSwitching(M, d, fail) ==
    IF M.m_masterNmtState[d] = "START" /\ M.m_nodeNmtState[d] = "START"
    THEN IF M.m_state[d] \in {"FAULT_STATE", "NODE_RESET"}
         THEN setState(M, d, "FAULT_RESET", fail)
         ELSE IF M.m_state[d] = "INITIAL_POWER_ON"
         THEN setState(M, d, "CYCLE_POWER_SHUTDOWN", fail)
         ELSE IF M.m_state[d] = "INITIAL_POWER_OFF"
         THEN setState(M, d, "POWER_ON_DISABLE_OPERATION", fail)
         ELSE M
    ELSE M

\* MotorDriver::OnBoot
motorOnBoot(M, d, es, fail) ==
    IF es = 0
    THEN handleInitialStateSwitching(
             [M EXCEPT !.m_nodeNmtState[d] = "START"], d, fail)
    ELSE [M EXCEPT !.errorCalls =
             Append(@, IF es = 66 THEN "NODE_MISSING"
                       ELSE "NODE_BOOT_FAILED")]

\* MotorDriver::OnCommand
motorOnCommand(M, d, cs, fail) ==
    handleInitialStateSwitching([M EXCEPT !.m_masterNmtState[d] = cs], d, fail)

\* MotorDriver::OnState
motorOnState(M, d, st, fail) ==
    handleInitialStateSwitching([M EXCEPT !.m_nodeNmtState[d] = st], d, fail)

\* the callback of the read of 0x6041 that OnConfig submits
StatusWordCallback == [kind |-> "initial status word", k |-> 0]

\* res(ec): the completion callback of OnConfig is called; the call is kept
\* in busLog behind the requests the driver made before it
configResult(M, d, ec) ==
    [M EXCEPT !.busLog = Append(@, BusEntry(d, "res", 0, 0, ec))]

\* the callback cont of a completed SDO request of node d runs
sdoCallback(M, d, cont, ec, value) ==
    CASE cont.kind = "start homing" -> setState(M, d, "HOMING", 0)
      [] cont.kind = "initial status word" ->
            configResult(
                setState([M EXCEPT !.m_statusWord[d] = value], d,
                         determineStateFromStatusWord(M.m_state[d], value, d),
                         0),
                d, ec)
      [] cont.kind = "fault register" ->
            IF ec = 0
            THEN IF value # 0
                 THEN [M EXCEPT !.errorCalls = Append(@, "Motor Fault")]
                 ELSE M
            ELSE [M EXCEPT !.errorCalls = Append(@, "READ_ERROR_FAILED")]
      [] cont.kind = "prepareMove" ->
            IF ec # 0 THEN setterFailed(M)
            ELSE prepareMoveFrom(M, d, cont.k + 1, 0)
      [] cont.kind = "executeMove" ->
            IF ec # 0 THEN setterFailed(M) ELSE M
      [] OTHER -> M

\* a task posted to the executor runs
runTask(M, t, fail) ==
    CASE t.task = "prepareMove" -> prepareMoveLambda(M, t.node, fail)
      [] t.task = "prepareHoming" ->
            prepareHoming(M, t.node, t.args[1], fail)
      [] OTHER -> setState(M, t.node, t.state, fail)

\* bounds of the motor specifications: user calls, bus operations, state
\* changes per driver and error callbacks of one behaviour
MaxCalls == 2
MaxQueuedCalls == 3
MaxBusLog == 20
MaxTrace == 10
MaxErrors == 2
\* status words other than the completing ones that the drives report
MaxDeviations == 1

Bounded(M) ==
    /\ Len(M.busLog) <= MaxBusLog
    /\ \A d \in MotorNodes : Len(M.trace[d]) <= MaxTrace
    /\ Len(M.errorCalls) <= MaxErrors

MotorEvent(op, d, sw, n) == [op |-> op, node |-> d, sw |-> sw, n |-> n]

\* the status word with which a drive completes the step its driver is in,
\* 0 when the driver waits for nothing
Completing(state) ==
    CASE state \in {"PREPARE_HOMING", "READY_FOR_HOMING", "READY_TO_MOVE"}
              -> 55
      [] state = "PREPARE_MOVE" -> 4151
      [] state = "MOVING" -> 1079
      [] state = "HOMING" -> 5175
      [] state \in {"POWER_ON_DISABLE_OPERATION", "FAULT_RESET"} -> 51
      [] state = "CYCLE_POWER_SHUTDOWN" -> 33
      [] OTHER -> 0

\* the states in which a driver keeps track of drive d
TrackedStates(d) ==
    {m_state[d]} \cup
    (IF m_followingNodeID[d] # 0 THEN {m_mainNodeState[d]} ELSE {}) \cup
    (IF m_followsNodeID[d] # 0
     THEN {m_state[m_followsNodeID[d]],
           m_followingNodeState[m_followsNodeID[d]]}
     ELSE {})

\* the driver that writes the control word drive d obeys: the main driver
\* of a follower, whose RPDO the follower shares
Commanding(d) == IF m_followsNodeID[d] # 0 THEN m_followsNodeID[d] ELSE d

\* drive d tracked in state s would run ahead of its control word: it
\* starts to move only once executeMove has cleared the set-point bit
\* (written on entering READY_TO_MOVE), disables the operation only once
\* the control word 0x0007 was written (on entering
\* POWER_ON_DISABLE_OPERATION) and attains its home position only after the
\* write of the control word 0x001F that starts the homing has completed
Ahead(d, s) ==
    LET commanded == m_state[Commanding(d)]
    IN  \/ s = "READY_TO_MOVE" /\ commanded = "PREPARE_MOVE"
        \/ s = "POWER_ON_DISABLE_OPERATION"
              /\ commanded \in {"PREPARE_MOVE", "READY_TO_MOVE", "MOVING"}
        \/ s = "HOMING"
              /\ \E i \in 1..Len(sdoQueue[Commanding(d)]) :
                    sdoQueue[Commanding(d)][i] = HomingCallback

NominalWords(d) ==
    IF m_state[d] = "INITIAL_STATE"
    THEN MotorStatusWords
    ELSE {Completing(s) : s \in {t \in TrackedStates(d) : ~Ahead(d, t)}}
             \ {0}


\* the drivers with the values of the initialisers in MotorDriver.h but for
\* m_state, the status word and the NMT states, which are given.  With
\* paired, node 4 follows node 3.
MotorInitAt(pairings, families, state, statusWord, nmt) ==
    /\ m_state = [d \in MotorNodes |-> state]
    /\ m_mainNodeState = [d \in MotorNodes |-> "IDLE"]
    /\ m_followingNodeState = [d \in MotorNodes |-> "IDLE"]
    /\ m_statusWord = [d \in MotorNodes |-> statusWord]
    /\ m_callbackOnIDLE = [d \in MotorNodes |-> <<>>]
    /\ m_currentMoveMode = [d \in MotorNodes |-> 0]
    /\ m_moveToPosition = [d \in MotorNodes |-> 0]
    /\ m_moveSpeed = [d \in MotorNodes |-> 0]
    /\ m_moveAcceleration = [d \in MotorNodes |-> 0]
    /\ m_moveDeacceleration = [d \in MotorNodes |-> 0]
    /\ m_masterNmtState = [d \in MotorNodes |-> nmt]
    /\ m_nodeNmtState = [d \in MotorNodes |-> nmt]
    /\ m_emergencyOccured = [d \in MotorNodes |-> FALSE]
    /\ posted = <<>>
    /\ sdoQueue = [d \in MotorNodes |-> <<>>]
    /\ timers = [d \in MotorNodes |-> 0]
    /\ busLog = <<>>
    /\ invoked = <<>>
    /\ errorCalls = <<>>
    /\ trace = [d \in MotorNodes |-> <<>>]
    /\ setterFamily \in families
    /\ calls = 0
    /\ deviations = 0
    /\ lastCall = NoMotorEvent
    /\ callingThread = NoCall
    /\ nestedSetState = FALSE
    /\ m_callbacksOnIdleMutex = Unlocked
    /\ \E paired \in pairings :
          /\ m_followingNodeID =
                [d \in MotorNodes |->
                    IF paired /\ d = MainNode THEN FollowerNode ELSE 0]
          /\ m_followsNodeID =
                [d \in MotorNodes |->
                    IF paired /\ d = FollowerNode THEN MainNode ELSE 0]
    /\ binaryDcf = [d \in MotorNodes |-> FALSE]
    /\ rpdoControl = [d \in MotorNodes |-> <<>>]
    /\ masterNodeConfig = <<>>
    /\ masterCobConfig = <<>>
    /\ m_firstNodeIDUsing_RPDO_COB_ID = [c \in CobIds |-> 0]
    /\ configRunning = [d \in MotorNodes |-> FALSE]
    /\ rpdoDone = [d \in MotorNodes |-> 0]
    /\ lastInference = NoInference
    /\ firstClaimer = [c \in CobIds |-> 0]
    /\ DeriveIdle
    /\ BootIdle
    /\ ConfigIdle

\* the drivers after a boot that brought every drive to IDLE
MotorInit(pairings, families) ==
    MotorInitAt(pairings, families, "IDLE", 51, "START")

\* the call of the user with the state the driver was in when it was made
CallEvent(event) ==
    [op |-> event.op, node |-> event.node, sw |-> event.sw, n |-> event.n,
     from |-> m_state[event.node]]

\* the fields take the values of M
MotorAssign(M, event) ==
    /\ Bounded(M)
    /\ m_state' = M.m_state
    /\ m_mainNodeState' = M.m_mainNodeState
    /\ m_followingNodeState' = M.m_followingNodeState
    /\ m_statusWord' = M.m_statusWord
    /\ m_callbackOnIDLE' = M.m_callbackOnIDLE
    /\ m_currentMoveMode' = M.m_currentMoveMode
    /\ m_moveToPosition' = M.m_moveToPosition
    /\ m_moveSpeed' = M.m_moveSpeed
    /\ m_moveAcceleration' = M.m_moveAcceleration
    /\ m_moveDeacceleration' = M.m_moveDeacceleration
    /\ m_masterNmtState' = M.m_masterNmtState
    /\ m_nodeNmtState' = M.m_nodeNmtState
    /\ m_emergencyOccured' = M.m_emergencyOccured
    /\ posted' = M.posted
    /\ sdoQueue' = M.sdoQueue
    /\ timers' = M.timers
    /\ busLog' = M.busLog
    /\ invoked' = M.invoked
    /\ errorCalls' = M.errorCalls
    /\ trace' = M.trace
    /\ nestedSetState' = M.nestedSetState
    /\ m_callbacksOnIdleMutex' = m_callbacksOnIdleMutex
    /\ lastCall' = IF event.n # 0 THEN CallEvent(event) ELSE lastCall
    /\ calls' = IF event.n # 0 THEN event.n ELSE calls
    /\ deviations' =
          IF event.op = "OnRpdoWrite" /\ event.sw \notin NominalWords(event.node)
          THEN deviations + 1 ELSE deviations
    /\ UNCHANGED <<setterFamily, deriveVars, bootVars, followVars, configVars>>

\* a handler has run on the executor thread
MotorStep(M, event) ==
    /\ MotorAssign(M, event)
    /\ UNCHANGED callingThread

\* the user calls move() on the executor thread
Move(d, args, fail) ==
    /\ calls < MaxQueuedCalls
    /\ MotorStep(move(motorState, d, args, calls + 1, fail),
                 MotorEvent("move", d, 0, calls + 1))

\* the user calls home() on the executor thread
Home(d, args, fail) ==
    /\ calls < MaxQueuedCalls
    /\ MotorStep(home(motorState, d, args, calls + 1, fail),
                 MotorEvent("home", d, 0, calls + 1))

\* the user calls recoverFromFault() on the executor thread
RecoverFromFault(d, fail) ==
    /\ calls < MaxQueuedCalls
    /\ MotorStep(recoverFromFault(motorState, d, calls + 1, fail),
                 MotorEvent("recoverFromFault", d, 0, calls + 1))

\* the RPDO with the status word of drive d arrives
MotorOnRpdoWrite(d, statusWord, fail) ==
    /\ statusWord \in NominalWords(d) \/ deviations < MaxDeviations
    /\ MotorStep(onRpdoWrite(motorState, d, statusWord, fail),
                 MotorEvent("OnRpdoWrite", d, statusWord, 0))

\* the oldest SDO request of node d completes
MotorSdoComplete(d, ec, value) ==
    /\ sdoQueue[d] # <<>>
    /\ MotorStep(sdoCallback([motorState EXCEPT !.sdoQueue[d] = Tail(@)], d,
                             Head(sdoQueue[d]), ec, value),
                 MotorEvent("SDO " \o Head(sdoQueue[d]).kind, d, 0, 0))

\* the executor runs the oldest posted task
RunPosted(fail) ==
    /\ posted # <<>>
    /\ MotorStep(runTask([motorState EXCEPT !.posted = Tail(@)],
                         Head(posted), fail),
                 MotorEvent("task " \o Head(posted).task, Head(posted).node,
                            0, 0))

\* the timer of recoverFromFault expires (ec = 0) or is canceled
TimerFires(d, ec, fail) ==
    /\ timers[d] > 0
    /\ MotorStep(IF ec = 0
                 THEN retriggerFaultReset(
                          [motorState EXCEPT !.timers[d] = @ - 1], d, fail)
                 ELSE [motorState EXCEPT !.timers[d] = @ - 1],
                 MotorEvent("timer", d, ec, 0))

\* the master has booted node d, which had been reset or had sent its
\* boot-up message
MotorOnBoot(d, es, fail) ==
    /\ \/ m_state[d] = "NODE_RESET"
       \/ m_nodeNmtState[d] \in {"BOOTUP", "STOP"}
    /\ MotorStep(motorOnBoot(motorState, d, es, fail),
                 MotorEvent("OnBoot", d, es, 0))

\* an NMT command of the master
MotorOnCommand(d, cs, fail) ==
    /\ d \in MotorNodes
    /\ MotorStep(motorOnCommand(motorState, d, cs, fail),
                 MotorEvent("OnCommand " \o cs, d, 0, 0))

\* a change of the NMT state of node d: the boot-up message of a node that
\* was reset, or the state START
MotorOnState(d, st, fail) ==
    /\ st # m_nodeNmtState[d]
    /\ st = "BOOTUP" => m_state[d] = "NODE_RESET"
    /\ MotorStep(motorOnState(motorState, d, st, fail),
                 MotorEvent("OnState " \o st, d, 0, 0))

\* the steps of the drivers with setters that report no error
MotorNext ==
    \/ \E args \in MoveArguments : calls < MaxCalls /\ Move(MainNode, args, 0)
    \/ \E args \in HomeArguments : calls < MaxCalls /\ Home(MainNode, args, 0)
    \/ calls < MaxCalls /\ RecoverFromFault(MainNode, 0)
    \/ \E d \in MotorNodes, statusWord \in MotorStatusWords :
          /\ d = FollowerNode => m_followsNodeID[d] # 0
          /\ MotorOnRpdoWrite(d, statusWord, 0)
    \/ \E d \in MotorNodes, ec \in {0} \cup RemoteErrors, value \in {0, 1} :
          MotorSdoComplete(d, ec, value)
    \/ RunPosted(0)
    \/ \E ec \in {0, 125} : TimerFires(MainNode, ec, 0)
    \/ \E es \in {0, 66} : MotorOnBoot(MainNode, es, 0)
    \/ MotorOnCommand(MainNode, "START", 0)
    \/ \E st \in {"START", "BOOTUP"} : MotorOnState(MainNode, st, 0)

(***************************************************************************)
(* Specification SpecMotor: driver 3 without follower, with PDO setters.   *)
(* Specification SpecPair: driver 4 follows driver 3.                      *)
(***************************************************************************)
MotorInitSingle == MotorInit({FALSE}, {"pdo"})

\* a driver without follower as its constructor leaves it
MotorConstructed == MotorInitAt({FALSE}, {"pdo"}, "INITIAL_STATE", 0, "STOP")

SpecMotor == MotorInitSingle /\ [][MotorNext]_vars

MotorInitPair == MotorInit({TRUE}, {"pdo"})

\* the steps of a move or a homing of the pair; a drive reports a
\* completing status word or a fault
PairNext ==
    \/ \E args \in MoveArguments : calls < MaxCalls /\ Move(MainNode, args, 0)
    \/ \E args \in HomeArguments : calls < MaxCalls /\ Home(MainNode, args, 0)
    \/ \E d \in MotorNodes, statusWord \in MotorStatusWords :
          /\ statusWord \in NominalWords(d) \cup {FAULT}
          /\ MotorOnRpdoWrite(d, statusWord, 0)
    \/ \E d \in MotorNodes, ec \in {0} \cup RemoteErrors, value \in {0, 1} :
          MotorSdoComplete(d, ec, value)
    \/ RunPosted(0)

SpecPair == MotorInitPair /\ [][PairNext]_vars

(***************************************************************************)
(* Specification SpecThreads: driver 3 without follower, whose user calls  *)
(* move(), home() and recoverFromFault() on a thread of its own.  Nothing  *)
(* orders the statements of such a call with the handlers on the executor  *)
(* thread: the call is taken in two steps, up to its read of m_state and   *)
(* from there, and handlers may run in between.                            *)
(***************************************************************************)
\* what the rest of a call did on the calling thread when it took the
\* driver from the fields as they are to M, having read m_state as saw
Touched(M, d, saw) ==
    (IF M.m_callbackOnIDLE # m_callbackOnIDLE
     THEN {"m_callbackOnIDLE"} ELSE {}) \cup
    (IF M.m_state # m_state THEN {"setState"} ELSE {}) \cup
    (IF M.m_state # m_state /\ saw # m_state[d]
     THEN {"setState after a stale read"} ELSE {}) \cup
    (IF M.busLog # busLog THEN {"bus write"} ELSE {}) \cup
    (IF M.invoked # invoked THEN {"callback"} ELSE {})

\* another thread calls op and runs it up to the read of m_state: move()
\* has stored its arguments, recoverFromFault() has queued its callback
ThreadCalls(op, d, args) ==
    /\ callingThread.pc = "none"
    /\ calls < MaxQueuedCalls
    /\ MotorAssign(
          CASE op = "move" -> moveParameters(motorState, d, args[1])
            [] op = "recoverFromFault" ->
                  addCallbackOnIdle(motorState, d, UserCallback(calls + 1))
            [] OTHER -> motorState,
          MotorEvent(op, d, 0, calls + 1))
    /\ callingThread' =
          [pc |-> "read", op |-> op, node |-> d, n |-> calls + 1,
           args |-> args, saw |-> m_state[d],
           access |-> callingThread.access \cup {"read of m_state"} \cup
                      (IF op = "move" THEN {"move parameters"} ELSE {}) \cup
                      (IF op = "recoverFromFault"
                       THEN {"m_callbackOnIDLE"} ELSE {})]

\* the call goes on from its read of m_state and returns
ThreadContinues(fail) ==
    /\ callingThread.pc = "read"
    /\ \E M \in {CASE callingThread.op = "move" ->
                       moveFrom(motorState, callingThread.node,
                                callingThread.n,
                                callingThread.saw = "IDLE", fail)
                  [] callingThread.op = "home" ->
                       homeFrom(motorState, callingThread.node,
                                callingThread.args[1], callingThread.n,
                                callingThread.saw = "IDLE", fail)
                  [] OTHER ->
                       recoverFrom(motorState, callingThread.node,
                                   callingThread.saw, fail)} :
          /\ MotorAssign(M, MotorEvent(callingThread.op \o " returns",
                                       callingThread.node, 0, 0))
          /\ callingThread' =
                [NoCall EXCEPT !.access =
                    callingThread.access \cup
                    Touched(M, callingThread.node, callingThread.saw)]

\* the drive reports a completing status word or a fault
DriveReports ==
    \E statusWord \in NominalWords(MainNode) \cup {FAULT} :
        MotorOnRpdoWrite(MainNode, statusWord, 0)

ThreadsNext ==
    \/ \E args \in MoveArguments : ThreadCalls("move", MainNode, <<args>>)
    \/ \E args \in HomeArguments : ThreadCalls("home", MainNode, <<args>>)
    \/ ThreadCalls("recoverFromFault", MainNode, <<>>)
    \/ ThreadContinues(0)
    \/ DriveReports
    \/ \E value \in {0, 1} : MotorSdoComplete(MainNode, 0, value)
    \/ RunPosted(0)

SpecThreads == MotorInitSingle /\ [][ThreadsNext]_vars

(***************************************************************************)
(* Specification SpecCallbacks: driver 3 without follower and a drive that *)
(* reports only the status word completing the step the driver is in, with *)
(* SDO requests that complete without error.                               *)
(***************************************************************************)
\* the drive reports the status word that completes the current step
DriveCompletes ==
    \E statusWord \in NominalWords(MainNode) :
        MotorOnRpdoWrite(MainNode, statusWord, 0)

\* an SDO request of the drive completes without error
SdoCompletes == MotorSdoComplete(MainNode, 0, 0)

CallbacksNext ==
    \/ \E args \in MoveArguments : Move(MainNode, args, 0)
    \/ \E args \in HomeArguments : Home(MainNode, args, 0)
    \/ RecoverFromFault(MainNode, 0)
    \/ DriveCompletes
    \/ SdoCompletes
    \/ RunPosted(0)

SpecCallbacks == MotorInitSingle /\ [][CallbacksNext]_vars

(***************************************************************************)
(* Specification SpecMutex: the queue of idle continuations of driver 3 in *)
(* IDLE and its mutex, statement by statement.  The executor thread calls  *)
(* recoverFromFault(), which queues the callback and serves the oldest     *)
(* entry; another thread queues callbacks; a callback returns or calls     *)
(* move(), home() or recoverFromFault() directly.                          *)
(***************************************************************************)
\* what a callback of the user does: it returns, or it calls one of the
\* three operations of the driver itself
CallbackBodies == {<<>>, <<"move">>, <<"home">>, <<"recoverFromFault">>}

\* the callbacks a user hands over with call n: nullptr, the default
\* argument, or a function
UserCallbacks(n) ==
    {[kind |-> "nullptr", n |-> n, args |-> <<>>]} \cup
    {[kind |-> "user", n |-> n, args |-> body] : body \in CallbackBodies}

\* what std::mutex::lock does when the calling thread owns the mutex
\* already, which is undefined: the thread blocks for ever, or the lock is
\* taken once more
RelockOutcomes == {"blocks", "proceeds"}

\* the variables the statements of the queue leave alone
mutexFrame ==
    <<m_state, m_mainNodeState, m_followingNodeState, m_statusWord,
      m_currentMoveMode, m_moveToPosition, m_moveSpeed, m_moveAcceleration,
      m_moveDeacceleration, m_masterNmtState, m_nodeNmtState,
      m_emergencyOccured, sdoQueue, timers, trace, posted, busLog,
      errorCalls, setterFamily, deviations, lastCall, callingThread,
      nestedSetState, deriveVars, bootVars, followVars, configVars>>

\* recoverFromFault(callback) on the executor thread, up to its call of
\* processOldestCallbackOnIdle: addCallbackOnIdle takes the mutex, pushes
\* the callback and releases the mutex
ExecutorRecovers(d, callback) ==
    /\ calls < MaxQueuedCalls
    /\ m_callbacksOnIdleMutex.executor = "none"
    /\ m_callbacksOnIdleMutex.owner = "none"
    /\ m_callbackOnIDLE' =
          addCallbackOnIdle(motorState, d, callback).m_callbackOnIDLE
    /\ calls' = calls + 1
    /\ m_callbacksOnIdleMutex' =
          [m_callbacksOnIdleMutex EXCEPT !.executor = "process"]
    /\ UNCHANGED <<invoked, mutexFrame>>

\* processOldestCallbackOnIdle: std::unique_lock lock(m_callbacksOnIdleMutex)
ProcessLocks ==
    /\ m_callbacksOnIdleMutex.executor = "process"
    /\ m_callbacksOnIdleMutex.owner = "none"
    /\ m_callbacksOnIdleMutex' =
          [m_callbacksOnIdleMutex EXCEPT !.owner = "executor",
                                         !.executor = "locked"]
    /\ UNCHANGED <<m_callbackOnIDLE, invoked, calls, mutexFrame>>

\* processOldestCallbackOnIdle: if the queue is not empty and back() is not
\* null, back()() is called; the callback runs until it returns or until
\* the operation it calls enters addCallbackOnIdle
ProcessCallsBack(d) ==
    /\ m_callbacksOnIdleMutex.executor = "locked"
    /\ LET q == m_callbackOnIDLE[d]
       IN  IF q = <<>>
           THEN /\ m_callbacksOnIdleMutex' =
                      [m_callbacksOnIdleMutex EXCEPT !.executor = "unlock"]
                /\ UNCHANGED invoked
           ELSE IF Head(q).kind = "nullptr"
           THEN /\ m_callbacksOnIdleMutex' =
                      [m_callbacksOnIdleMutex EXCEPT !.executor = "pop_back"]
                /\ UNCHANGED invoked
           ELSE /\ invoked' = Append(invoked, Head(q).n)
                /\ m_callbacksOnIdleMutex' =
                      [m_callbacksOnIdleMutex EXCEPT !.executor =
                          IF Head(q).args = <<>>
                          THEN "pop_back" ELSE "lock in callback"]
    /\ UNCHANGED <<m_callbackOnIDLE, calls, mutexFrame>>

\* addCallbackOnIdle, entered by the operation the callback calls: the
\* executor thread locks the mutex it owns.  When the lock is taken once
\* more the entry of that operation is pushed, the mutex is released and
\* the callback returns.
CallbackLocks(d, outcome) ==
    /\ m_callbacksOnIdleMutex.executor = "lock in callback"
    /\ IF m_callbacksOnIdleMutex.owner = "executor" /\ outcome = "blocks"
       THEN /\ m_callbacksOnIdleMutex' =
                  [m_callbacksOnIdleMutex EXCEPT !.executor = "blocked"]
            /\ UNCHANGED m_callbackOnIDLE
       ELSE /\ m_callbackOnIDLE' =
                  addCallbackOnIdle(motorState, d,
                      [kind |-> "nullptr", n |-> 0, args |-> <<>>])
                     .m_callbackOnIDLE
            /\ m_callbacksOnIdleMutex' =
                  [m_callbacksOnIdleMutex EXCEPT !.owner = "none",
                                                 !.executor = "pop_back"]
    /\ UNCHANGED <<invoked, calls, mutexFrame>>

\* processOldestCallbackOnIdle: m_callbackOnIDLE.pop_back()
ProcessPops(d) ==
    /\ m_callbacksOnIdleMutex.executor = "pop_back"
    /\ m_callbackOnIDLE' = [m_callbackOnIDLE EXCEPT ![d] = Tail(@)]
    /\ m_callbacksOnIdleMutex' =
          [m_callbacksOnIdleMutex EXCEPT !.executor = "unlock"]
    /\ UNCHANGED <<invoked, calls, mutexFrame>>

\* processOldestCallbackOnIdle returns: the lock goes out of scope
ProcessUnlocks ==
    /\ m_callbacksOnIdleMutex.executor = "unlock"
    /\ m_callbacksOnIdleMutex' =
          [m_callbacksOnIdleMutex EXCEPT !.owner = "none",
                                         !.executor = "none"]
    /\ UNCHANGED <<m_callbackOnIDLE, invoked, calls, mutexFrame>>

\* another thread enters addCallbackOnIdle: it takes the mutex or waits
ThreadLocks ==
    /\ \/ m_callbacksOnIdleMutex.thread = "none" /\ calls < MaxQueuedCalls
       \/ m_callbacksOnIdleMutex.thread = "waits"
             /\ m_callbacksOnIdleMutex.owner = "none"
    /\ m_callbacksOnIdleMutex' =
          IF m_callbacksOnIdleMutex.owner = "none"
          THEN [m_callbacksOnIdleMutex EXCEPT !.owner = "thread",
                                              !.thread = "push_front"]
          ELSE [m_callbacksOnIdleMutex EXCEPT !.thread = "waits"]
    /\ UNCHANGED <<m_callbackOnIDLE, invoked, calls, mutexFrame>>

\* addCallbackOnIdle on the other thread: push_front, and the lock goes out
\* of scope
ThreadPushes(d, callback) ==
    /\ m_callbacksOnIdleMutex.thread = "push_front"
    /\ m_callbackOnIDLE' =
          addCallbackOnIdle(motorState, d, callback).m_callbackOnIDLE
    /\ calls' = calls + 1
    /\ m_callbacksOnIdleMutex' =
          [m_callbacksOnIdleMutex EXCEPT !.owner = "none", !.thread = "none"]
    /\ UNCHANGED <<invoked, mutexFrame>>

MutexNext ==
    \/ \E callback \in UserCallbacks(calls + 1) :
          ExecutorRecovers(MainNode, callback)
    \/ ProcessLocks
    \/ ProcessCallsBack(MainNode)
    \/ \E outcome \in RelockOutcomes : CallbackLocks(MainNode, outcome)
    \/ ProcessPops(MainNode)
    \/ ProcessUnlocks
    \/ ThreadLocks
    \/ \E callback \in UserCallbacks(calls + 1) :
          ThreadPushes(MainNode, callback)

SpecMutex == MotorInitSingle /\ [][MutexNext]_vars

(***************************************************************************)
(* Specification SpecShift: the user calls move() twice and then           *)
(* recoverFromFault() twice, at any time, on driver 3 whose drive reports  *)
(* the completing status words only.                                       *)
(***************************************************************************)
ShiftCalls == <<"move", "move", "recoverFromFault", "recoverFromFault">>

\* the next call of ShiftCalls is made on the executor thread
NextCall(d) ==
    /\ calls < Len(ShiftCalls)
    /\ IF ShiftCalls[calls + 1] = "move"
       THEN \E args \in MoveArguments :
               MotorStep(move(motorState, d, args, calls + 1, 0),
                         MotorEvent("move", d, 0, calls + 1))
       ELSE MotorStep(recoverFromFault(motorState, d, calls + 1, 0),
                      MotorEvent("recoverFromFault", d, 0, calls + 1))

ShiftNext ==
    \/ NextCall(MainNode)
    \/ DriveCompletes
    \/ RunPosted(0)

SpecShift == MotorInitSingle /\ [][ShiftNext]_vars

(***************************************************************************)
(* The state-derivation table of the specification, row by row.  A row     *)
(* matches on the "From" state and the condition on the status word; with  *)
(* inBranch the rows that name op-enable=1 also require the switched-on    *)
(* branch.                                                                 *)
(***************************************************************************)
TableSwitchedOff(sw) ==
    Has(sw, READY_TO_SWITCH_ON) /\ ~Has(sw, SWITCHED_ON) /\ ~Has(sw, OPERATION_ENABLED)

TableSwitchedOn(sw) ==
    /\ ~TableSwitchedOff(sw)
    /\ Has(sw, READY_TO_SWITCH_ON) /\ Has(sw, SWITCHED_ON) /\ Has(sw, VOLTAGE_ENABLED)

TableRows == 1 .. 14

TableTo ==
    <<"FAULT_STATE", "INITIAL_POWER_OFF", "INITIAL_POWER_ON",
      "POWER_ON_DISABLE_OPERATION", "IDLE", "FAULT_RESET",
      "CYCLE_POWER_SHUTDOWN", "READY_FOR_HOMING", "HOMING",
      "POWER_ON_DISABLE_OPERATION", "FAULT_STATE", "READY_TO_MOVE", "MOVING",
      "POWER_ON_DISABLE_OPERATION">>

TableRowMatches(r, cur, sw, inBranch) ==
    LET opOn == Has(sw, OPERATION_ENABLED) /\ (inBranch => TableSwitchedOn(sw))
        tr   == Has(sw, TARGET_REACHED)
        oms1 == Has(sw, OPERATION_MODE_SPECIFIC1)
        oms2 == Has(sw, OPERATION_MODE_SPECIFIC2)
        mfg1 == Has(sw, MANUFACTURER_SPECIFIC1)
        onOpOff == TableSwitchedOn(sw) /\ ~Has(sw, OPERATION_ENABLED)
    IN  CASE r = 1  -> Has(sw, FAULT)
          [] r = 2  -> cur = "INITIAL_STATE" /\ TableSwitchedOff(sw)
          [] r = 3  -> cur = "INITIAL_STATE" /\ ~TableSwitchedOff(sw)
          [] r = 4  -> cur # "INITIAL_STATE" /\ TableSwitchedOff(sw)
          [] r = 5  -> cur = "POWER_ON_DISABLE_OPERATION" /\ onOpOff
          [] r = 6  -> cur = "FAULT_STATE" /\ onOpOff /\ ~mfg1
          [] r = 7  -> cur = "FAULT_RESET" /\ onOpOff /\ ~mfg1
          [] r = 8  -> cur = "PREPARE_HOMING" /\ opOn
          [] r = 9  -> cur = "READY_FOR_HOMING" /\ opOn /\ ~tr /\ ~oms1 /\ ~oms2
          [] r = 10 -> cur = "HOMING" /\ opOn /\ tr /\ oms1
          [] r = 11 -> cur = "HOMING" /\ opOn /\ tr /\ oms2
          [] r = 12 -> cur = "PREPARE_MOVE" /\ opOn /\ oms1
          [] r = 13 -> cur = "READY_TO_MOVE" /\ opOn /\ ~tr /\ ~oms1
          [] r = 14 -> cur = "MOVING" /\ opOn /\ tr

\* the rows of the table that match (cur, sw), the FAULT row having priority
TableMatching(cur, sw, inBranch) ==
    IF TableRowMatches(1, cur, sw, inBranch) THEN {1}
    ELSE {r \in TableRows : TableRowMatches(r, cur, sw, inBranch)}

\* the first matching row's target, the current state when no row matches
TableFirst(cur, sw, inBranch) ==
    LET m == TableMatching(cur, sw, inBranch)
    IN  IF m = {} THEN cur
        ELSE TableTo[CHOOSE r \in m : \A q \in m : r <= q]

(***************************************************************************)
(* C1: for every current state and every status word with bit 3 (FAULT)   *)
(* set, the derived state is FAULT_STATE, whatever the other bits and the  *)
(* node ID are.                                                            *)
(***************************************************************************)
C1_FaultBitGivesFaultState ==
    (dNext # "none" /\ Has(dSw, FAULT)) => dNext = "FAULT_STATE"

\* the FAULT bit together with the bit pattern of a switched-off drive
C1_Witness ==
    /\ dNext = "FAULT_STATE"
    /\ dCur = "MOVING"
    /\ Has(dSw, FAULT)
    /\ driveSwitchedOff(dSw)
    /\ dNode = MaxNodeID

(***************************************************************************)
(* C2 as stated: the derived state is the target of a matching row of the *)
(* table read as written (op-enable=1 rows need nothing but that bit), and *)
(* the current state when no row matches.                                  *)
(***************************************************************************)
C2_TableAsWritten ==
    dNext # "none" =>
        LET m == TableMatching(dCur, dSw, FALSE)
        IN  IF m = {} THEN dNext = dCur
            ELSE \E r \in m : dNext = TableTo[r]

(***************************************************************************)
(* C2 amended: the derived state is the target of the first matching row  *)
(* of the table, where the rows conditioned on op-enable=1 match only in   *)
(* the switched-on branch (READY_TO_SWITCH_ON, SWITCHED_ON and             *)
(* VOLTAGE_ENABLED all set); it is the current state when no row matches.  *)
(***************************************************************************)
C2_TableInSwitchedOnBranch ==
    dNext # "none" => dNext = TableFirst(dCur, dSw, TRUE)

\* homing ends with both the attained and the error bit set: two rows match
C2_Witness ==
    /\ dCur = "HOMING"
    /\ dNext = "POWER_ON_DISABLE_OPERATION"
    /\ Has(dSw, OPERATION_MODE_SPECIFIC1)
    /\ Has(dSw, OPERATION_MODE_SPECIFIC2)
    /\ Has(dSw, TARGET_REACHED)

(***************************************************************************)
(* C3 as stated: after any sequence of driver configurations, for every    *)
(* pair of drivers a and b, a follows b exactly when b's following slot    *)
(* names a, and no driver has both its following and its follows slot set. *)
(***************************************************************************)
C3_FollowerPairInvariant ==
    /\ \A a \in Nodes : \A b \in Nodes :
          (m_followsNodeID[a] = b) <=> (m_followingNodeID[b] = a)
    /\ \A a \in Nodes :
          ~(m_followingNodeID[a] # 0 /\ m_followsNodeID[a] # 0)

(***************************************************************************)
(* C4: a non-zero following slot names a node ID strictly larger than the  *)
(* driver's own, a non-zero follows slot a strictly smaller one: of two    *)
(* drivers sharing an RPDO COB-ID the lower node ID is the main whichever  *)
(* is configured first.                                                    *)
(***************************************************************************)
C4_LowerNodeIDIsMain ==
    \A d \in Nodes :
        /\ m_followingNodeID[d] # 0 => m_followingNodeID[d] > d
        /\ m_followsNodeID[d] # 0 => m_followsNodeID[d] < d

\* the driver configured second has the lower node ID and became the main
C4_Witness ==
    /\ lastInference.node # 0
    /\ lastInference.first > lastInference.node
    /\ m_firstNodeIDUsing_RPDO_COB_ID[lastInference.cobID] = lastInference.first
    /\ m_followingNodeID[lastInference.node] = lastInference.first
    /\ m_followsNodeID[lastInference.first] = lastInference.node

(***************************************************************************)
(* C5 as stated: the first node that claims an RPDO COB-ID keeps the       *)
(* registry entry for ever, and every later driver that claims the same    *)
(* COB-ID is linked as a follower of that first node.                      *)
(***************************************************************************)
C5_LaterClaimantFollowsFirst ==
    /\ \A c \in CobIds : m_firstNodeIDUsing_RPDO_COB_ID[c] = firstClaimer[c]
    /\ lastInference.first \notin {0, lastInference.node} =>
          /\ m_followsNodeID[lastInference.node] = lastInference.first
          /\ m_followingNodeID[lastInference.first] = lastInference.node

(***************************************************************************)
(* C5 amended: the first node that claims an RPDO COB-ID keeps the         *)
(* registry entry for ever, and every later driver that claims the same    *)
(* COB-ID is paired with that first node: as its follower when the later   *)
(* driver's node ID is the larger one, as its main (the first node         *)
(* becoming the follower) when it is the smaller one.                      *)
(***************************************************************************)
C5_LaterClaimantPairedWithFirst ==
    /\ \A c \in CobIds : m_firstNodeIDUsing_RPDO_COB_ID[c] = firstClaimer[c]
    /\ lastInference.first \notin {0, lastInference.node} =>
          IF lastInference.first < lastInference.node
          THEN /\ m_followsNodeID[lastInference.node] = lastInference.first
               /\ m_followingNodeID[lastInference.first] = lastInference.node
          ELSE /\ m_followingNodeID[lastInference.node] = lastInference.first
               /\ m_followsNodeID[lastInference.first] = lastInference.node

\* a third driver claims a COB-ID after the first claimer was paired already
C5_Witness ==
    /\ lastInference.first \notin {0, lastInference.node}
    /\ firstClaimer[lastInference.cobID] = lastInference.first
    /\ \E d \in Nodes \ {lastInference.node, lastInference.first} :
          /\ rpdoDone[d] > 0
          /\ rpdoControl[d][1].lo = lastInference.cobID
          /\ lastInference.node < d
          /\ d < lastInference.first

\* the elements of a sequence
SeqRange(seq) == {seq[i] : i \in DOMAIN seq}

(***************************************************************************)
(* C6: between two reset() calls the boot-completed callback is invoked    *)
(* with id 0 at most once, and an OnBoot for a node that is not (or no     *)
(* longer) in the pending-boot set invokes only the per-node callback.     *)
(***************************************************************************)
C6_AllBootedAtMostOnce ==
    /\ allBooted <= 1
    /\ (bootEvent.op = "OnBoot" /\ ~bootEvent.wasPending) =>
           bootCallbacks = IF m_bootCompletedCallback
                           THEN <<bootEvent.id>> ELSE <<>>

\* a second successful boot event of a registered node after all have booted
C6_Witness ==
    /\ bootEvent.op = "OnBoot"
    /\ bootEvent.es = 0
    /\ ~bootEvent.wasPending
    /\ bootEvent.id \in m_drivers
    /\ m_devicesToBoot = {}
    /\ allBooted = 1
    /\ bootCallbacks = <<bootEvent.id>>

(***************************************************************************)
(* C7 as stated: with no slave entry at 0x1F20 and 0x1F22 the pending-boot *)
(* set is empty after configureDrivers and the callback has been invoked   *)
(* with id 0 once an OnBoot event has been handled.                        *)
(***************************************************************************)
C7_AllBootedFiresWithoutSlaves ==
    ( /\ uploadFile1F20 = {} /\ uploadFile1F22 = {}
      /\ m_bootCompletedCallback
      /\ ~afterReset
      /\ bootEvent.op = "OnBoot" /\ bootEvent.es = 0 ) =>
        (m_devicesToBoot = {} /\ 0 \in SeqRange(bootCallbacks))

(***************************************************************************)
(* C7 amended: with no slave entry at 0x1F20 and 0x1F22 no driver is       *)
(* registered, the pending-boot set is empty after configureDrivers, and   *)
(* no OnBoot event invokes the callback with id 0: every OnBoot invokes    *)
(* the per-node callback only.                                             *)
(***************************************************************************)
C7_NoSlavesNeverAllBooted ==
    (uploadFile1F20 = {} /\ uploadFile1F22 = {} /\ masterPhase = "configured") =>
        /\ m_drivers = {}
        /\ m_devicesToBoot = {}
        /\ allBooted = 0
        /\ 0 \notin SeqRange(bootCallbacks)
        /\ (bootEvent.op = "OnBoot" /\ m_bootCompletedCallback) =>
               bootCallbacks = <<bootEvent.id>>

\* a successful boot event handled by a master without drivers
C7_Witness ==
    /\ uploadFile1F20 = {} /\ uploadFile1F22 = {}
    /\ m_bootCompletedCallback
    /\ bootEvent.op = "OnBoot"
    /\ bootEvent.es = 0
    /\ bootCallbacks = <<bootEvent.id>>

C10_OneRequestInListOrder ==
    /\ Cardinality(outstanding) <= 1
    /\ \A i \in DOMAIN sdoLog : sdoLog[i].from = i - 1
    /\ \A i \in DOMAIN sdoLog : \A j \in DOMAIN sdoLog :
          i < j => sdoLog[i].turn <= sdoLog[j].turn
    /\ \A i \in DOMAIN sdoLog :
          LET own == m_sdosToConfigure[sdoLog[i].turn].index
              index == sdoLog[i].index
              mapping ==
                 \/ index >= RECEIVE_PDO_MAPPING_START
                       /\ index <= RECEIVE_PDO_MAPPING_END
                 \/ index >= TRANSMIT_PDO_MAPPING_START
                       /\ index <= TRANSMIT_PDO_MAPPING_END
          IN  /\ sdoLog[i].turn \in DOMAIN m_sdosToConfigure
              /\ index = own \/ index = own + 512
              /\ mapping => own = index - 512

\* the sub-indices of a listed mapping object were written in the turn of
\* its control object and a later object of the list has had its turn
C10_Witness ==
    \E i \in DOMAIN sdoLog : \E j \in DOMAIN sdoLog :
        /\ i < j
        /\ sdoLog[i].index = RECEIVE_PDO_MAPPING_START
        /\ sdoLog[i].sub > 0
        /\ findObject(RECEIVE_PDO_MAPPING_START) = sdoLog[i].turn + 1
        /\ sdoLog[j].turn > sdoLog[i].turn + 1
        /\ outstanding # {}

\* the step of the PDO activation protocol that log entry i is: 1 read I:1,
\* 2 first write of I:1, 3 write I:2, 4 write I:3, 5 first write of
\* (I+0x200):0, 6 write of a mapping sub-index > 0, 7 second write of
\* (I+0x200):0, 8 second write of I:1; 0 for anything else
StepRank(i) ==
    LET e == sdoLog[i]
        I == m_sdosToConfigure[e.turn].index
        earlier == \E j \in 1 .. i - 1 :
                      /\ sdoLog[j].turn = e.turn /\ sdoLog[j].op = "write"
                      /\ sdoLog[j].index = e.index /\ sdoLog[j].sub = e.sub
    IN  IF e.op = "read"
        THEN (IF e.index = I /\ e.sub = 1 THEN 1 ELSE 0)
        ELSE IF e.index = I
        THEN (CASE e.sub = 1 -> (IF earlier THEN 8 ELSE 2)
                [] e.sub = 2 -> 3
                [] e.sub = 3 -> 4
                [] OTHER -> 0)
        ELSE IF e.index = I + 512
        THEN (IF e.sub > 0 THEN 6 ELSE IF earlier THEN 7 ELSE 5)
        ELSE 0

ControlTurn(i) ==
    \/ isRpdoControl(m_sdosToConfigure[sdoLog[i].turn].index)
    \/ isTpdoControl(m_sdosToConfigure[sdoLog[i].turn].index)

ActivatedRpdo ==
    {sdoLog[i].index : i \in {j \in completedOk :
        /\ isRpdoControl(m_sdosToConfigure[sdoLog[j].turn].index)
        /\ StepRank(j) = 8}}

(***************************************************************************)
(* C12 as stated: after a successful PDO activation of control object      *)
(* 0x1400+n the remote value of (0x1400+n):1 has bit 31 clear, for every   *)
(* local dictionary content.                                               *)
(***************************************************************************)
C12_RemoteValidAfterActivation ==
    \A I \in ActivatedRpdo : (remoteCobId[I].hi \div 4) % 2 = 0

(***************************************************************************)
(* C12 amended: after a successful PDO activation of control object        *)
(* 0x1400+n the remote value of (0x1400+n):1 is the local value of         *)
(* (0x1400+n):1; its bit 31 is clear (the PDO is valid) exactly when bit   *)
(* 31 of the local value is clear.                                         *)
(***************************************************************************)
C12_RemoteEqualsLocalAfterActivation ==
    \A I \in ActivatedRpdo :
        /\ remoteCobId[I] = rpdoControl[ConfigNode][1]
        /\ (remoteCobId[I].hi \div 4) % 2 = 0
              <=> (rpdoControl[ConfigNode][1].hi \div 4) % 2 = 0

\* an activation completed for a local COB-ID word with bit 31 set
C12_Witness ==
    /\ ActivatedRpdo # {}
    /\ (rpdoControl[ConfigNode][1].hi \div 4) % 2 = 1
    /\ resCalls = <<Success>>

\* the first configured sub-index with an unsupported type, in list order
FirstUnsupported ==
    CHOOSE p \in unsupportedTypes :
        \A q \in unsupportedTypes :
            p[1] < q[1] \/ (p[1] = q[1] /\ p[2] <= q[2])

(***************************************************************************)
(* C13: when a configured sub-index has a type outside boolean, int8,      *)
(* int16, int32, uint8, uint16, uint32, no write is issued for it, and a   *)
(* run that reaches it completes with the error WRITE_REMOTE_SDO carrying  *)
(* its index and sub-index and the SDO DATA abort code, with no later      *)
(* request; such a run never completes with success.                       *)
(***************************************************************************)
C13_UnsupportedTypeAborts ==
    /\ \A i \in DOMAIN sdoLog :
          <<sdoLog[i].index, sdoLog[i].sub>> \notin unsupportedTypes
    /\ unsupportedTypes # {} /\ resCalls # <<>> =>
          /\ resCalls # <<Success>>
          /\ firstFailure.value \notin RemoteErrors \cup LocalReadErrors =>
                /\ resCalls = <<ConfigError("WRITE_REMOTE_SDO",
                                            FirstUnsupported[1],
                                            FirstUnsupported[2], SDO_DATA)>>
                /\ outstanding = {}
                /\ Len(sdoLog) = requestsAtFailure
    /\ resCalls # <<>> /\ resCalls[1].value = SDO_DATA =>
          <<resCalls[1].index, resCalls[1].sub>> \in unsupportedTypes

\* the second sub-index of a parameter object has an unsupported type and
\* the run ended there, after the write of the first one
C13_Witness ==
    /\ resCalls # <<>>
    /\ resCalls[1].value = SDO_DATA
    /\ resCalls[1].kind = "WRITE_REMOTE_SDO"
    /\ resCalls[1].sub = 2
    /\ sdoLog # <<>>
    /\ sdoLog[Len(sdoLog)].index = resCalls[1].index
    /\ sdoLog[Len(sdoLog)].sub = 1
    /\ Len(sdoLog) \in completedOk

\* C14: with a clear-configuration strategy installed, no SDO request of the
\* configuration is issued and res is not called before the strategy calls
\* back; after "operation canceled" res was called once with success and no
\* request was issued; after any other error res was called once with that
\* error and no request was issued; a request was issued only after the
\* strategy reported success.
C14_StrategyGatesConfiguration ==
    m_clearConfigurationStrategy =>
        /\ (~configStarted \/ strategyPending) =>
              sdoLog = <<>> /\ resCalls = <<>> /\ dcfSubmitted = 0
        /\ operation_canceled(strategyResult) =>
              sdoLog = <<>> /\ resCalls = <<Success>> /\ dcfSubmitted = 0
        /\ (strategyResult # NoResult /\ strategyResult.value # 0
               /\ ~operation_canceled(strategyResult)) =>
              sdoLog = <<>> /\ resCalls = <<strategyResult>>
                 /\ dcfSubmitted = 0
        /\ (sdoLog # <<>> \/ dcfSubmitted > 0) => strategyResult = Success

C14_Witness ==
    /\ m_clearConfigurationStrategy
    /\ m_sdosToConfigure # <<>>
    /\ strategyResult = Canceled
    /\ resCalls = <<Success>>
    /\ sdoLog = <<>>

\* the configuration has run to its end without an error
ConfigurationSucceeded ==
    /\ configStarted /\ ~strategyPending
    /\ strategyResult \in {NoResult, Success}
    /\ outstanding = {}
    /\ firstFailure = NoFailure

\* what C15 says of a driver with a binary DCF file
DownloadsAfterConfiguration ==
    /\ ConfigurationSucceeded => dcfSubmitted = 1
    /\ dcfSubmitted > 0 =>
          /\ ConfigurationSucceeded
          /\ completedOk = DOMAIN sdoLog
    /\ dcfOutstanding => resCalls = <<>>
    /\ (ConfigurationSucceeded /\ ~dcfOutstanding) =>
          dcfResult # NoResult /\ resCalls = <<dcfResult>>
    /\ firstFailure # NoFailure =>
          /\ dcfSubmitted = 0
          /\ outstanding = {} => resCalls = <<firstFailure>>

\* C15 as stated: every driver with a binary DCF file downloads the file
\* exactly once after a configuration without error, after the last
\* configuration request has completed, and reports the result of the
\* download; after a failed configuration it downloads nothing and reports
\* the configuration error.
C15_BinaryDriverDownloads ==
    binaryDcf[ConfigNode] => DownloadsAfterConfiguration

\* C15, amended: this holds for a driver with a binary DCF file and a
\* clear-configuration strategy; a driver with a binary DCF file and no
\* strategy never downloads the file and reports the result of the
\* configuration.
C15_BinaryDriverWithStrategyDownloads ==
    binaryDcf[ConfigNode] =>
        /\ m_clearConfigurationStrategy => DownloadsAfterConfiguration
        /\ ~m_clearConfigurationStrategy =>
              /\ dcfSubmitted = 0
              /\ ConfigurationSucceeded => resCalls = <<Success>>
              /\ (firstFailure # NoFailure /\ outstanding = {}) =>
                    resCalls = <<firstFailure>>

C15_Witness ==
    /\ binaryDcf[ConfigNode]
    /\ m_clearConfigurationStrategy
    /\ Len(sdoLog) > 1
    /\ dcfSubmitted = 1
    /\ dcfResult # NoResult /\ dcfResult # Success
    /\ resCalls = <<dcfResult>>

(***************************************************************************)
(* Specification SpecQueue: driver 3 without follower with up to           *)
(* MaxQueuedCalls calls of the user on the executor thread, a drive that   *)
(* reports completing status words or a fault, and the boot that follows a *)
(* reset of the node.                                                      *)
(***************************************************************************)
\* the master has booted the node after its reset
BootsAfterReset == MotorOnBoot(MainNode, 0, 0)

QueueNext ==
    \/ \E args \in MoveArguments : Move(MainNode, args, 0)
    \/ \E args \in HomeArguments : Home(MainNode, args, 0)
    \/ RecoverFromFault(MainNode, 0)
    \/ DriveReports
    \/ SdoCompletes
    \/ RunPosted(0)
    \/ BootsAfterReset

SpecQueue == MotorInitSingle /\ [][QueueNext]_vars

(***************************************************************************)
(* A driver from its construction on: the first status word of the drive   *)
(* is any word, the master starts and boots the node, the drive may report *)
(* an emergency.                                                           *)
(***************************************************************************)
\* DCFDriver::OnEmcy
motorOnEmcy(M, d, emergencyErrorCode) ==
    LET M1 == [M EXCEPT !.m_emergencyOccured[d] = (emergencyErrorCode # 0)]
    IN  IF emergencyErrorCode # 0
        THEN [M1 EXCEPT !.errorCalls = Append(@, "EMERGENCY")]
        ELSE M1

MotorOnEmcy(d, emergencyErrorCode) ==
    MotorStep(motorOnEmcy(motorState, d, emergencyErrorCode),
              MotorEvent("OnEmcy", d, 0, 0))

MasterStarts == MotorOnCommand(MainNode, "START", 0)

StartNext ==
    \/ MasterStarts
    \/ BootsAfterReset
    \/ DriveReports
    \/ \E emergencyErrorCode \in {0, 4096} :
          MotorOnEmcy(MainNode, emergencyErrorCode)
    \/ \E args \in MoveArguments :
          calls < MaxCalls /\ Move(MainNode, args, 0)
    \/ SdoCompletes
    \/ RunPosted(0)

SpecStart == MotorConstructed /\ [][StartNext]_vars

(***************************************************************************)
(* Specification SpecSync: a driver from its construction on whose node is *)
(* configured up to MaxConfigs times. The configuration of DCFDriver ends  *)
(* with success or an abort code, and so does the read of 0x6041 that      *)
(* follows it.                                                             *)
(***************************************************************************)
MaxConfigs == 2

\* the lambda that MotorDriver::OnConfig hands to DCFDriver::OnConfig, called
\* with the result ec of the configuration
motorOnConfig(M, d, ec) ==
    IF ec = 0
    THEN IF M.m_state[d] = "INITIAL_STATE"
         THEN SubmitRead(M, d, 24641, 0, StatusWordCallback)
         ELSE configResult(M, d, ec)
    ELSE configResult(
             [M EXCEPT !.errorCalls = Append(@, "NODE_CONFIGURATION_FAILED")],
             d, ec)

\* the configurations of node d: those that called res and the one whose
\* read of 0x6041 is under way
Configurations(d) ==
    Cardinality({i \in DOMAIN busLog :
                    busLog[i].node = d /\ busLog[i].via = "res"})
    + Cardinality({i \in DOMAIN sdoQueue[d] :
                      sdoQueue[d][i] = StatusWordCallback})

\* the configuration of node d by DCFDriver::OnConfig has ended with ec
MotorOnConfig(d, ec) ==
    /\ Configurations(d) < MaxConfigs
    /\ \A i \in DOMAIN sdoQueue[d] : sdoQueue[d][i] # StatusWordCallback
    /\ MotorStep(motorOnConfig(motorState, d, ec),
                 MotorEvent("OnConfig", d, 0, 0))

\* the results of the read of 0x6041: the status word of the drive, or an
\* abort code with the value 0
StatusWordReads ==
    [ec : {0}, value : {0} \cup MotorStatusWords]
        \cup [ec : RemoteErrors, value : {0}]

\* the read of 0x6041 that OnConfig submitted completes
StatusWordReadCompletes ==
    /\ sdoQueue[MainNode] # <<>>
    /\ Head(sdoQueue[MainNode]) = StatusWordCallback
    /\ \E r \in StatusWordReads : MotorSdoComplete(MainNode, r.ec, r.value)

\* another SDO request completes
OtherSdoCompletes ==
    /\ sdoQueue[MainNode] # <<>>
    /\ Head(sdoQueue[MainNode]) # StatusWordCallback
    /\ SdoCompletes

SyncNext ==
    \/ \E ec \in {0} \cup RemoteErrors : MotorOnConfig(MainNode, ec)
    \/ StatusWordReadCompletes
    \/ OtherSdoCompletes
    \/ MasterStarts
    \/ BootsAfterReset
    \/ DriveReports

SpecSync == MotorConstructed /\ [][SyncNext]_vars

(***************************************************************************)
(* One move with either family of setters, where any setter may report an  *)
(* error, and a drive that may report a fault meanwhile.                   *)
(***************************************************************************)
\* the values of enum AdditionalErrorCode that the driver reports
AdditionalErrorCode(name) ==
    CASE name = "READ_ERROR_FAILED" -> 44803
      [] name = "NODE_MISSING" -> 44804
      [] name = "WRTIE_TO_NODE_ERROR" -> 44805
      [] name = "NODE_BOOT_FAILED" -> 44802
      [] OTHER -> 0

MotorInitSetters == MotorInit({FALSE}, {"sdo", "pdo"})

DriveFaults == MotorOnRpdoWrite(MainNode, FAULT, 0)

SettersNext ==
    \/ \E args \in MoveArguments, fail \in 0..PrepareMoveSetters :
          /\ calls = 0
          /\ setterFamily = "sdo" => fail = 0
          /\ Move(MainNode, args, fail)
    \/ \E ec \in {0} \cup RemoteErrors : MotorSdoComplete(MainNode, ec, 0)
    \/ DriveFaults

SpecSetters == MotorInitSetters /\ [][SettersNext]_vars

(***************************************************************************)
(* Claims about the callbacks of move(), home() and recoverFromFault()     *)
(***************************************************************************)
\* the user callback of call n has been invoked
Invoked(n) == \E i \in 1..Len(invoked) : invoked[i] = n

\* driver d rests: it is IDLE, the executor has no task for it and none of
\* its SDO requests is outstanding, so that without a further call of the
\* user only a status word can wake it, and the completing status word of
\* IDLE is the one it has
AtRest(d) ==
    /\ m_state[d] = "IDLE"
    /\ posted = <<>>
    /\ sdoQueue[d] = <<>>
    /\ timers[d] = 0

\* C16: every callback handed to move(), home() or recoverFromFault() is
\* eventually invoked while the drive keeps reporting the completing status
\* words, also when the operation was submitted during an earlier one: when
\* the driver has come to rest every callback submitted has been invoked
C16_EveryCallbackInvoked ==
    AtRest(MainNode) => \A n \in 1..calls : Invoked(n)

\* C16, the order: callbacks are invoked in the order of submission
C16_InvokedInOrder ==
    \A i, j \in 1..Len(invoked) : i < j => invoked[i] < invoked[j]

(***************************************************************************)
(* Claims about a move of the follower pair 3 and 4                        *)
(***************************************************************************)
\* the states of a move, in order
MoveStates ==
    <<"PREPARE_MOVE", "READY_TO_MOVE", "MOVING", "POWER_ON_DISABLE_OPERATION",
      "IDLE">>

\* seq is the beginning of whole
IsPrefix(seq, whole) ==
    /\ Len(seq) <= Len(whole)
    /\ \A i \in 1..Len(seq) : seq[i] = whole[i]

\* status word sw has the bit OPERATION_MODE_SPECIFIC1 set
HasOMS1(sw) == (sw \div OPERATION_MODE_SPECIFIC1) % 2 = 1

\* the only call so far is move(RELATIVE, ...) on driver 3, made in IDLE, and
\* no drive has reported a fault
OneRelativeMove ==
    /\ calls = 1
    /\ lastCall.op = "move"
    /\ lastCall.node = MainNode
    /\ m_currentMoveMode[MainNode] = 64
    /\ deviations = 0

\* C17: with driver 4 following driver 3, a move(RELATIVE) on driver 3 from
\* IDLE takes the aggregate state through PREPARE_MOVE, READY_TO_MOVE, MOVING,
\* POWER_ON_DISABLE_OPERATION and IDLE in this order; the aggregate state is
\* READY_TO_MOVE only with the status words of both drives reporting OMS1,
\* the control word written on entering READY_TO_MOVE is 0x004F, and the
\* callback is invoked exactly when IDLE is entered
C17_PairMove ==
    OneRelativeMove =>
        /\ IsPrefix(trace[MainNode], MoveStates)
        /\ m_state[MainNode] = "READY_TO_MOVE" =>
              /\ HasOMS1(m_statusWord[MainNode])
              /\ HasOMS1(m_statusWord[FollowerNode])
              /\ busLog[Len(busLog)] =
                    BusEntry(MainNode, "pdo", 24640, 0, 79)
        /\ (invoked = <<1>>) <=> (trace[MainNode] = MoveStates)
        /\ invoked \in {<<>>, <<1>>}

\* the move of C17 has run to its end
C17_Witness ==
    /\ OneRelativeMove
    /\ trace[MainNode] = MoveStates
    /\ invoked = <<1>>
    /\ \E i \in 1..Len(busLog) :
          busLog[i] = BusEntry(MainNode, "pdo", 24640, 0, 79)
(***************************************************************************)
(* Claims about homing a driver without follower                           *)
(***************************************************************************)
\* the states of a homing, in order
HomingStates ==
    <<"PREPARE_HOMING", "READY_FOR_HOMING", "HOMING",
      "POWER_ON_DISABLE_OPERATION", "IDLE">>

\* the writes of home(21, 5000, 10000, 1000, 5000, cb) on driver 3
HomingLog ==
    <<BusEntry(MainNode, "sdo", 24672, 0, 1),
      BusEntry(MainNode, "sdo", 24728, 0, 21),
      BusEntry(MainNode, "sdo", 24729, 1, 5000),
      BusEntry(MainNode, "sdo", 24729, 2, 10000),
      BusEntry(MainNode, "sdo", 24730, 0, 1000),
      BusEntry(MainNode, "sdo", 24700, 0, 5000),
      BusEntry(MainNode, "sdo", 24672, 0, 6),
      BusEntry(MainNode, "sdo", 24640, 0, 15)>>

\* the write that starts the homing
StartHomingEntry == BusEntry(MainNode, "sdo", 24640, 0, 31)

\* how often x occurs in seq
Occurrences(seq, x) == Cardinality({i \in 1..Len(seq) : seq[i] = x})

\* status word sw has the bit flag set
HasFlag(sw, flag) == (sw \div flag) % 2 = 1

\* the only call so far is home() on driver 3, made in IDLE, and the drive
\* has reported completing status words only
OneHoming ==
    /\ calls = 1
    /\ lastCall.op = "home"
    /\ lastCall.node = MainNode
    /\ deviations = 0

\* C18: home() called in IDLE on a driver without follower issues the eight
\* writes 0x6060=1, 0x6098, 0x6099:1, 0x6099:2, 0x609A, 0x607C, 0x6060=6,
\* 0x6040=0x000F in this order; 0x6040=0x001F is written only on entering
\* READY_FOR_HOMING, with a status word that has operation enabled; the driver
\* is in POWER_ON_DISABLE_OPERATION with a status word that has target
\* reached and OMS1, and the callback is invoked when IDLE is entered after
\* POWER_ON_DISABLE_OPERATION
C18_Homing ==
    OneHoming =>
        /\ IsPrefix(HomingLog, busLog)
        /\ Occurrences(busLog, StartHomingEntry)
              = Occurrences(trace[MainNode], "READY_FOR_HOMING")
        /\ m_state[MainNode] = "READY_FOR_HOMING" =>
              /\ HasFlag(m_statusWord[MainNode], OPERATION_ENABLED)
              /\ busLog[Len(busLog)] = StartHomingEntry
        /\ m_state[MainNode] = "POWER_ON_DISABLE_OPERATION" =>
              /\ HasFlag(m_statusWord[MainNode], TARGET_REACHED)
              /\ HasFlag(m_statusWord[MainNode], OPERATION_MODE_SPECIFIC1)
        /\ Len(trace[MainNode]) <= 5 => IsPrefix(trace[MainNode], HomingStates)
        /\ (invoked = <<1>>) <=> (Len(trace[MainNode]) >= 5)
        /\ invoked \in {<<>>, <<1>>}

\* the homing of C18 has run to its end
C18_Witness ==
    /\ OneHoming
    /\ trace[MainNode] = HomingStates
    /\ invoked = <<1>>
    /\ Len(busLog) = 10
(***************************************************************************)
(* Claims about the recovery from a fault                                  *)
(***************************************************************************)
\* the states of a move that ends with a fault and of its recovery
RecoveryStates ==
    <<"PREPARE_MOVE", "READY_TO_MOVE", "MOVING", "FAULT_STATE", "NODE_RESET",
      "FAULT_RESET", "CYCLE_POWER_SHUTDOWN", "POWER_ON_DISABLE_OPERATION",
      "IDLE">>

\* the NMT command RESET_NODE (0x81) to node 3
ResetNodeEntry == BusEntry(MainNode, "nmt", 0, 0, 129)

\* the write of the control word 0x0080
FaultResetEntry == BusEntry(MainNode, "sdo", 24640, 0, 128)

\* the position of the first x in seq, 0 when there is none
FirstIndex(seq, x) ==
    IF \E i \in 1..Len(seq) : seq[i] = x
    THEN CHOOSE i \in 1..Len(seq) :
            seq[i] = x /\ \A j \in 1..(i - 1) : seq[j] # x
    ELSE 0

\* driver 3 went into FAULT_STATE while MOVING and the user then called
\* recoverFromFault(cb) in FAULT_STATE, as the second call; the fault is the
\* only status word of the drive that did not complete a step
RecoveryFromFaultInMoving ==
    /\ calls = 2
    /\ deviations = 1
    /\ lastCall.op = "recoverFromFault"
    /\ lastCall.node = MainNode
    /\ lastCall.from = "FAULT_STATE"
    /\ IsPrefix(SubSeq(RecoveryStates, 1, 4), trace[MainNode])

\* C19: after a fault in MOVING, recoverFromFault(cb) in FAULT_STATE moves
\* the driver to NODE_RESET and issues NMT RESET_NODE for this node only; the
\* driver is in FAULT_RESET only with master and node in NMT state START,
\* 0x6040=0x0080 is written on entering FAULT_RESET, and the driver then
\* passes CYCLE_POWER_SHUTDOWN and POWER_ON_DISABLE_OPERATION and reaches
\* IDLE, where cb is invoked
C19_Recovery ==
    RecoveryFromFaultInMoving =>
        /\ Len(trace[MainNode]) >= 5
        /\ IsPrefix(trace[MainNode], RecoveryStates)
        /\ \A i \in 1..Len(busLog) :
              busLog[i].via = "nmt" => busLog[i] = ResetNodeEntry
        /\ Occurrences(busLog, ResetNodeEntry) = 1
        /\ m_state[MainNode] = "FAULT_RESET" =>
              /\ m_masterNmtState[MainNode] = "START"
              /\ m_nodeNmtState[MainNode] = "START"
              /\ busLog[Len(busLog)] = FaultResetEntry
        /\ Len(trace[MainNode]) >= 6 =>
              /\ Occurrences(busLog, FaultResetEntry) = 1
              /\ FirstIndex(busLog, ResetNodeEntry)
                    < FirstIndex(busLog, FaultResetEntry)
        /\ (invoked = <<2>>) <=> (trace[MainNode] = RecoveryStates)
        /\ invoked \in {<<>>, <<2>>}

\* the recovery of C19 has run to its end
C19_Witness ==
    /\ RecoveryFromFaultInMoving
    /\ trace[MainNode] = RecoveryStates
    /\ invoked = <<2>>
    /\ Occurrences(busLog, FaultResetEntry) = 1
(***************************************************************************)
(* Claims about calls from other threads                                   *)
(***************************************************************************)
\* C20: move(), home() and recoverFromFault() called from a thread other
\* than the executor's only enqueue work: on the calling thread they touch
\* nothing but the queue of callbacks, neither the motor state nor the
\* stored move parameters nor the bus
C20_CallsOnlyEnqueue == callingThread.access \subseteq {"m_callbackOnIDLE"}

\* a call on another thread has changed the state of the driver after a
\* status-word handler had changed it behind the call's read of m_state
C20_StaleTransition ==
    "setState after a stale read" \in callingThread.access
Occurs(seq, x) == \E i \in 1..Len(seq) : seq[i] = x

\* C22: setState is never entered while another setState call of the same
\* driver is still running, also with setters that call their continuation
\* at once
C22_NoNestedSetState == ~nestedSetState

\* setState has run the setters of prepareMove, a continuation that starts
\* a queued operation, and performFaultReset
C22_Witness ==
    /\ ~nestedSetState
    /\ setterFamily = "pdo"
    /\ Occurs(trace[MainNode], "PREPARE_MOVE")
    /\ Occurs(trace[MainNode], "FAULT_RESET")
    /\ \E i \in 1..Len(trace[MainNode]) - 1 :
          /\ trace[MainNode][i] = "IDLE"
          /\ trace[MainNode][i + 1] \in {"PREPARE_MOVE", "PREPARE_HOMING"}
          /\ Len(invoked) < calls
\* the step makes the transition of driver d into state
Enters(d, state) ==
    /\ Len(trace'[d]) = Len(trace[d]) + 1
    /\ trace'[d][Len(trace'[d])] = state

\* the step calls the entry callback of the queue of driver d, once, and
\* no other entry
Invokes(d, callback) ==
    IF callback.kind = "user"
    THEN /\ invoked' = Append(invoked, callback.n)
         /\ Len(posted') <= Len(posted)
    ELSE /\ invoked' = invoked
         /\ Len(posted') = Len(posted) + 1
         /\ posted'[Len(posted')] =
               [task |-> callback.kind, node |-> d, args |-> callback.args,
                state |-> "none"]

\* the step calls no entry of a queue
InvokesNone ==
    /\ invoked' = invoked
    /\ \A i \in 1..Len(posted') :
          posted'[i].task \in {"prepareMove", "prepareHoming"}
              => \E j \in 1..Len(posted) : posted[j] = posted'[i]

\* the step is a status word of driver d that derives the state d is in
SelfLoop(d) ==
    /\ m_statusWord'[d] # m_statusWord[d]
    /\ trace' = trace

\* the step is recoverFromFault called in IDLE, which takes an entry itself
RecoversInIdle ==
    /\ calls' # calls
    /\ lastCall'.op = "recoverFromFault"
    /\ lastCall'.from = "IDLE"

\* C23: setState takes an idle-continuation only on a transition into IDLE
\* from another state, then it removes and calls one entry, the oldest, of
\* a queue that has entries; a setState to the current state changes
\* nothing and writes nothing
C23_IdleTakesOldest ==
    [][LET q == m_callbackOnIDLE[MainNode]
       IN  /\ Enters(MainNode, "IDLE") /\ q # <<>>
                => /\ m_callbackOnIDLE'[MainNode] = Tail(q)
                   /\ Invokes(MainNode, Head(q))
           /\ Enters(MainNode, "IDLE") /\ q = <<>>
                => m_callbackOnIDLE'[MainNode] = q /\ InvokesNone
           /\ ~Enters(MainNode, "IDLE") /\ ~RecoversInIdle => InvokesNone
           /\ SelfLoop(MainNode)
                => /\ m_state' = m_state
                   /\ m_callbackOnIDLE' = m_callbackOnIDLE
                   /\ busLog' = busLog
                   /\ posted' = posted
                   /\ sdoQueue' = sdoQueue
                   /\ InvokesNone]_vars

\* a transition into IDLE has called the oldest of three entries and has
\* left the others, and a further status word that derives IDLE has changed
\* nothing
C23_Witness ==
    /\ m_state[MainNode] = "IDLE"
    /\ trace[MainNode] # <<>>
    /\ m_statusWord[MainNode] = 55
    /\ invoked = <<1>>
    /\ Len(m_callbackOnIDLE[MainNode]) = 2
    /\ m_callbackOnIDLE[MainNode][1].kind # "user"
\* the read of the fault register 0x603F:0 that handleFault submits
FaultRegisterRead == BusEntry(MainNode, "read", 24639, 0, 0)

\* C24: every transition into FAULT_STATE empties the queue of
\* idle-continuations and calls none of them, and it calls handleFault
\* (which reads the fault register unless an emergency has reported the
\* fault) if and only if the state before was not INITIAL_STATE
C24_FaultClearsQueue ==
    [][Enters(MainNode, "FAULT_STATE")
          => /\ m_callbackOnIDLE'[MainNode] = <<>>
             /\ InvokesNone
             /\ IF m_state[MainNode] # "INITIAL_STATE"
                   /\ ~m_emergencyOccured[MainNode]
                THEN busLog' = Append(busLog, FaultRegisterRead)
                ELSE busLog' = busLog]_vars

\* FAULT_STATE was entered from INITIAL_STATE and, after a recovery, from
\* a later state, each time with calls in the queue
C24_Witness ==
    /\ m_state[MainNode] = "FAULT_STATE"
    /\ Len(trace[MainNode]) > 2
    /\ trace[MainNode][1] = "FAULT_STATE"
    /\ Occurrences(busLog, FaultRegisterRead) = 1
    /\ calls = 2
    /\ invoked = <<>>
    /\ m_callbackOnIDLE[MainNode] = <<>>
\* the writes of the setters in busLog, without the reads
SetterLog == SelectSeq(busLog, LAMBDA e : e.via # "read")

\* the setter calls of a move in their order: operation mode 0x6060,
\* control word 0x6040, position 0x607A, velocity 0x6081, acceleration
\* 0x6083, deceleration 0x6084, control word 0x6040
MoveSetterCalls(d) ==
    LET via == IF setterFamily = "sdo" THEN "sdo" ELSE "pdo"
    IN  <<BusEntry(d, via, 24672, 0, 1),
          BusEntry(d, via, 24640, 0, 7),
          BusEntry(d, via, 24698, 0, m_moveToPosition[d]),
          BusEntry(d, via, 24705, 0, m_moveSpeed[d]),
          BusEntry(d, via, 24707, 0, m_moveAcceleration[d]),
          BusEntry(d, via, 24708, 0, m_moveDeacceleration[d]),
          BusEntry(d, via, 24640, 0, BitOr(m_currentMoveMode[d], 287))>>

\* the setters of prepareMove whose completion is awaited
AwaitedSetters(d) ==
    {k \in 1..PrepareMoveSetters :
        \E i \in 1..Len(sdoQueue[d]) :
            sdoQueue[d][i] = PrepareMoveCallback(k)}

\* a setter has reported an error
SetterFailed == Occurs(errorCalls, "WRTIE_TO_NODE_ERROR")

\* C25: the setters of prepareMove are called in the fixed order, each
\* after the one before has reported success; after an error of a setter no
\* later setter is called, the error callback has been called once, with
\* 0xAF05, and the state is PREPARE_MOVE still
C25_SetterSequence ==
    calls = 1 =>
        /\ IsPrefix(SetterLog, MoveSetterCalls(MainNode))
        /\ \A k \in AwaitedSetters(MainNode) : k = Len(SetterLog)
        /\ SetterFailed =>
              /\ AwaitedSetters(MainNode) = {}
              /\ Occurrences(errorCalls, "WRTIE_TO_NODE_ERROR") = 1
              /\ AdditionalErrorCode("WRTIE_TO_NODE_ERROR") = 44805
              /\ deviations = 0 => m_state[MainNode] = "PREPARE_MOVE"

\* the fifth setter has reported an error, with setters that complete later
C25_Witness ==
    /\ calls = 1
    /\ setterFamily = "sdo"
    /\ SetterFailed
    /\ Len(SetterLog) = 5
    /\ m_state[MainNode] = "PREPARE_MOVE"
(***************************************************************************)
(* Claims about a main driver and its follower                             *)
(***************************************************************************)
\* the write of executeMove: the control word mode | 0x000F, without halt
ExecuteMoveEntry ==
    BusEntry(MainNode, "pdo", 24640, 0, BitOr(m_currentMoveMode[MainNode], 15))

\* the entries the step appends to busLog
Appended == SubSeq(busLog', Len(busLog) + 1, Len(busLog'))

\* C26: the main of a pair writes the control word mode | 0x000F only when
\* the tracked states of main and follower have both become READY_TO_MOVE
\* while the aggregate state was PREPARE_MOVE, and once per move: every
\* such write is the one write of a transition PREPARE_MOVE ->
\* READY_TO_MOVE of the aggregate state
C26_HaltDroppedOnce ==
    [][Occurs(Appended, ExecuteMoveEntry)
          => /\ Appended = <<ExecuteMoveEntry>>
             /\ m_state[MainNode] = "PREPARE_MOVE"
             /\ Enters(MainNode, "READY_TO_MOVE")
             /\ m_mainNodeState'[MainNode] = "READY_TO_MOVE"
             /\ m_followingNodeState'[MainNode] = "READY_TO_MOVE"]_vars

\* two moves of the pair have been started, each with one write of the
\* control word without halt
C26_Witness ==
    /\ m_followingNodeID[MainNode] = FollowerNode
    /\ calls = 2
    /\ m_state[MainNode] = "MOVING"
    /\ Occurrences(trace[MainNode], "PREPARE_MOVE") = 2
    /\ Occurrences(busLog, ExecuteMoveEntry) = 2
\* the states a main driver aggregates from its own state and the state of
\* its follower
AggregatedStates == {"PREPARE_MOVE", "READY_TO_MOVE", "MOVING", "IDLE"}

\* the step moves the aggregate state of the main to a state that is not
\* aggregated
LeavesAggregated ==
    /\ m_state'[MainNode] # m_state[MainNode]
    /\ m_state'[MainNode] \notin AggregatedStates

\* the step handles a new status word of node d
StatusWordOf(d) == m_statusWord'[d] # m_statusWord[d]

\* C27: a status word moves the aggregate state of a main with follower
\* out of {PREPARE_MOVE, READY_TO_MOVE, MOVING, IDLE} only if it is a word
\* of the main itself, and then to the tracked state of the main; a word of
\* the follower never does, not into FAULT_STATE either.  Apart from status
\* words only a call (home, recoverFromFault) and the completion of a write
\* move it to such a state.
C27_FollowerNeverMovesOut ==
    [][/\ StatusWordOf(FollowerNode) => ~LeavesAggregated
       /\ StatusWordOf(MainNode) /\ LeavesAggregated
            => m_state'[MainNode] = m_mainNodeState'[MainNode]
       /\ LeavesAggregated
            => \/ StatusWordOf(MainNode)
               \/ calls' # calls
               \/ Len(sdoQueue'[MainNode]) < Len(sdoQueue[MainNode])
               \/ Len(posted') < Len(posted)]_vars

\* the statement as it stands: the aggregate state leaves the aggregated
\* states only after a status word of the main
C27_OnlyByMainWord ==
    [][LeavesAggregated
          => /\ StatusWordOf(MainNode)
             /\ m_state'[MainNode] = m_mainNodeState'[MainNode]]_vars

\* the follower has reported a fault during a move and the aggregate state
\* is MOVING still
C27_Witness ==
    /\ m_followingNodeID[MainNode] = FollowerNode
    /\ m_followingNodeState[MainNode] = "FAULT_STATE"
    /\ m_state[FollowerNode] = "FAULT_STATE"
    /\ m_state[MainNode] = "MOVING"
(***************************************************************************)
(* Claims about single rows of the state derivation                        *)
(***************************************************************************)
\* a status word from HOMING, without FAULT, in the switched-on branch, with
\* operation enabled, target reached and the homing error bit (OMS2)
HomingErrorWord ==
    /\ dCur = "HOMING"
    /\ dNext # "none"
    /\ ~Has(dSw, FAULT)
    /\ driveSwitchedOn(dSw)
    /\ Has(dSw, OPERATION_ENABLED)
    /\ Has(dSw, TARGET_REACHED)
    /\ Has(dSw, OPERATION_MODE_SPECIFIC2)

\* C28 as stated: from HOMING every such word derives FAULT_STATE, whatever
\* the other bits are
C28_HomingErrorAlways == HomingErrorWord => dNext = "FAULT_STATE"

\* C28: from HOMING such a word derives FAULT_STATE if the homing attained
\* bit (OMS1) is not set, and POWER_ON_DISABLE_OPERATION if it is set,
\* whatever the other bits are
C28_HomingErrorWithoutAttained ==
    HomingErrorWord =>
        dNext = IF Has(dSw, OPERATION_MODE_SPECIFIC1)
                THEN "POWER_ON_DISABLE_OPERATION"
                ELSE "FAULT_STATE"

\* a word with homing error and without homing attained has derived
\* FAULT_STATE, with bits set that the row does not name
C28_Witness ==
    /\ HomingErrorWord
    /\ ~Has(dSw, OPERATION_MODE_SPECIFIC1)
    /\ Has(dSw, MANUFACTURER_SPECIFIC1)
    /\ dNext = "FAULT_STATE"
(***************************************************************************)
(* Claims about local read errors and mapping sub-indices of the PDO       *)
(* activation                                                              *)
(***************************************************************************)
\* what the handler has done: one request op index:sub, and no call of res
Requests(out, op, index, sub) ==
    /\ out.res = <<>>
    /\ Len(out.req) = 1
    /\ out.req[1].op = op
    /\ out.req[1].index = index
    /\ out.req[1].sub = sub

\* what the handler has done: no request, and res called with the error
\* of phase ReadLocal for index:sub and the code of the local read
AbortsReadLocal(out, index, sub, ec) ==
    /\ out.req = <<>>
    /\ out.res = <<ConfigError("READ_LOCAL_VALUE", index, sub, ec)>>

\* the local read errors 0x06020000 and 0x06090011
MissingLocally == {100794368, 101253137}

\* C29: when the write before has succeeded, the local read of I:3 with
\* error 0x06020000 or 0x06090011 is followed by the write of
\* (I + 0x200):0 = 0 without a write of I:3, any other error of that read
\* and any error of the local read of I:2 or I:1 ends the configuration
\* with phase ReadLocal; no configuration has failed with one of the two
\* errors at sub-index 3
C29_MissingInhibitTimeTolerated ==
    /\ \A req \in outstanding, loc \in LocalOutcomes :
          LET out == Completed(req, 0, Zero, loc)
              I == m_sdosToConfigure[req.pc.obj].index
          IN  /\ req.pc.phase = "type" =>
                    IF loc.ec \in MissingLocally
                    THEN /\ Requests(out, "write", I + 512, 0)
                         /\ out.req[1].val = Zero
                    ELSE IF loc.ec # 0
                    THEN AbortsReadLocal(out, I, 3, loc.ec)
                    ELSE Requests(out, "write", I, 3)
              /\ req.pc.phase = "invalid" =>
                    IF loc.ec # 0
                    THEN AbortsReadLocal(out, I, 2, loc.ec)
                    ELSE Requests(out, "write", I, 2)
              /\ req.pc.phase = "mapcnt" /\ isTpdoControl(I) =>
                    IF loc.ec # 0
                    THEN AbortsReadLocal(out, I, 1, loc.ec)
                    ELSE Requests(out, "write", I, 1)
    /\ firstFailure.kind = "READ_LOCAL_VALUE" /\ firstFailure.sub = 3
            /\ (isRpdoControl(firstFailure.index)
                   \/ isTpdoControl(firstFailure.index))
          => firstFailure.value \notin MissingLocally
    /\ \A i \in DOMAIN sdoLog :
          ControlTurn(i) /\ StepRank(i) = 5 => StepRank(i - 1) \in {3, 4}

\* an activation has gone on after the write of I:2 with the write of
\* (I + 0x200):0 = 0, without a write of I:3, and has come to its end
C29_Witness ==
    \E i \in DOMAIN sdoLog :
        /\ ControlTurn(i)
        /\ StepRank(i) = 5
        /\ StepRank(i - 1) = 3
        /\ \E j \in i + 1 .. Len(sdoLog) :
              /\ sdoLog[j].turn = sdoLog[i].turn
              /\ StepRank(j) = 8
              /\ j \in completedOk
\* the requests logged after request j and before request i
LoggedBetween(j, i) == SubSeq(sdoLog, j + 1, i - 1)

\* C30: in an activation that has come to the write of the local
\* (I + 0x200):0, every listed sub-index s > 0 of the mapping object has
\* been written once, in ascending order, after the write
\* (I + 0x200):0 = 0, whether sub-index 0 is in the list or not
C30_EveryMappingWritten ==
    \A i \in DOMAIN sdoLog, j \in DOMAIN sdoLog :
        /\ ControlTurn(i)
        /\ StepRank(i) = 7
        /\ j < i
        /\ sdoLog[j].turn = sdoLog[i].turn
        /\ StepRank(j) = 5
        => LET mapping == m_sdosToConfigure[findObject(sdoLog[i].index)]
               writes == LoggedBetween(j, i)
           IN  /\ \A k \in DOMAIN writes :
                     /\ writes[k].op = "write"
                     /\ writes[k].index = mapping.index
               /\ [k \in DOMAIN writes |-> writes[k].sub]
                     = SelectSeq(mapping.subs, LAMBDA sub : sub > 0)

\* C31: in every activation the second write of I:1 follows at once the
\* write of the local (I + 0x200):0, whether the mapping object has listed
\* sub-indices above 0 or not and whether it is in the list or not
C31_MappingCountCommitted ==
    \A i \in DOMAIN sdoLog :
        ControlTurn(i) /\ StepRank(i) = 8
        => /\ sdoLog[i - 1].turn = sdoLog[i].turn
           /\ StepRank(i - 1) = 7
           /\ sdoLog[i - 1].index = m_sdosToConfigure[sdoLog[i].turn].index + 512

\* C31, as far as the mapping object is in the list: the second write of
\* I:1 follows at once the write of the local (I + 0x200):0
C31_ListedMappingCountCommitted ==
    \A i \in DOMAIN sdoLog :
        /\ ControlTurn(i)
        /\ StepRank(i) = 8
        /\ findObject(m_sdosToConfigure[sdoLog[i].turn].index + 512) # 0
        => /\ sdoLog[i - 1].turn = sdoLog[i].turn
           /\ StepRank(i - 1) = 7

\* an activation without the mapping object in the list has rewritten I:1
\* right after the write (I + 0x200):0 = 0
C31_MappingCountLeftZero ==
    \E i \in DOMAIN sdoLog :
        /\ ControlTurn(i)
        /\ StepRank(i) = 8
        /\ StepRank(i - 1) = 5
        /\ findObject(m_sdosToConfigure[sdoLog[i].turn].index + 512) = 0
        /\ i \in completedOk

(***************************************************************************)
(* Claims about the NMT commands the master receives                       *)
(***************************************************************************)
\* C32: the NMT command RESET_COMM clears 0x1F20:node of every registered
\* driver and 0x1F22:node of the registered drivers with a
\* clear-configuration strategy, and leaves every other entry of the two
\* objects as it was; no other NMT command changes an entry
C32_ResetCommClearsUploadFiles ==
    [][/\ bootEvent'.op = "OnCommand RESET_COMM" =>
             /\ uploadFile1F20' = uploadFile1F20 \ m_drivers
             /\ uploadFile1F22' = uploadFile1F22 \
                    (m_drivers \cap customClearConfigurationStrategy)
       /\ (\E cs \in NmtCommands \ {"RESET_COMM"} :
               bootEvent'.op = "OnCommand " \o cs) =>
             /\ uploadFile1F20' = uploadFile1F20
             /\ uploadFile1F22' = uploadFile1F22]_vars

\* RESET_COMM has been received with every node registered: no entry of
\* 0x1F20 is left, the driver with a strategy has lost its entry of 0x1F22
\* and a driver without strategy still has its one
C32_Witness ==
    /\ bootEvent.op = "OnCommand RESET_COMM"
    /\ m_drivers = Nodes
    /\ uploadFile1F20 = {}
    /\ customClearConfigurationStrategy # {}
    /\ uploadFile1F22 = Nodes \ customClearConfigurationStrategy
    /\ uploadFile1F22 # {}

(***************************************************************************)
(* Claims about recoverFromFault outside FAULT_STATE, FAULT_RESET and IDLE *)
(***************************************************************************)
\* the step is a call of recoverFromFault in a state other than
\* FAULT_STATE, FAULT_RESET and IDLE
RecoversElsewhere ==
    /\ calls' # calls
    /\ lastCall'.op = "recoverFromFault"
    /\ lastCall'.from \notin {"FAULT_STATE", "FAULT_RESET", "IDLE"}

\* the step changes no state of a driver, writes nothing on the bus, sends
\* no NMT command, starts no timer, posts no task and calls no callback
NothingDone ==
    UNCHANGED <<m_state, m_mainNodeState, m_followingNodeState, trace,
                busLog, timers, sdoQueue, posted, invoked, errorCalls>>

\* C33 as stated: recoverFromFault called in a state other than
\* FAULT_STATE, FAULT_RESET and IDLE changes neither the motor state nor
\* the queue of idle continuations and issues no bus write, NMT command or
\* timer
C33_RecoverElsewhereNoOp ==
    [][RecoversElsewhere => NothingDone /\ UNCHANGED m_callbackOnIDLE]_vars

\* C33 amended: such a call changes no motor state and issues no bus
\* write, NMT command or timer, and it adds its callback to the queue of
\* idle continuations as the newest entry
C33_RecoverElsewhereOnlyQueues ==
    [][RecoversElsewhere =>
          /\ NothingDone
          /\ m_callbackOnIDLE' =
                [m_callbackOnIDLE EXCEPT ![lastCall'.node] =
                    Append(@, UserCallback(lastCall'.n))]]_vars

\* recoverFromFault has been called while the driver was moving: the driver
\* is still moving and the callback of the call is the newest entry of the
\* queue
C33_Witness ==
    /\ lastCall.op = "recoverFromFault"
    /\ lastCall.from = "MOVING"
    /\ m_state[MainNode] = "MOVING"
    /\ m_callbackOnIDLE[MainNode] # <<>>
    /\ m_callbackOnIDLE[MainNode][Len(m_callbackOnIDLE[MainNode])]
          = UserCallback(lastCall.n)
    /\ calls = lastCall.n

(***************************************************************************)
(* Claims about the latch m_emergencyOccured                               *)
(***************************************************************************)
\* C34: when a move starts (the driver enters MOVING) the latch that an
\* EMCY has set is cleared, so that handleFault reads 0x603F at the next
\* fault that no EMCY has announced
C34_LatchClearedByMove ==
    [][Enters(MainNode, "MOVING") => ~m_emergencyOccured'[MainNode]]_vars

\* no change of the motor state changes the latch
C34_LatchKeptByStates ==
    [][trace' # trace => UNCHANGED m_emergencyOccured]_vars

\* in a run with one EMCY the driver has started a move, and the fault of
\* the moving drive has been entered with the latch set and without a read
\* of 0x603F in the whole run
C34_FaultUnreported ==
    /\ m_state[MainNode] = "FAULT_STATE"
    /\ Len(trace[MainNode]) > 1
    /\ trace[MainNode][Len(trace[MainNode]) - 1] = "MOVING"
    /\ m_emergencyOccured[MainNode]
    /\ Occurrences(errorCalls, "EMERGENCY") = 1
    /\ Occurrences(busLog, FaultRegisterRead) = 0

(***************************************************************************)
(* Claims about the call a callback belongs to                             *)
(***************************************************************************)
\* the number of moves of driver d that have come to IDLE
CompletedMoves(d) ==
    Cardinality({i \in 1..Len(trace[d]) :
                    /\ trace[d][i] = "MOVING"
                    /\ \E j \in i + 1 .. Len(trace[d]) : trace[d][j] = "IDLE"})

\* C35: the callback of a move() call is invoked only after the move that
\* this call has started has come to IDLE: with the n-th call being the
\* n-th move() call, its callback has been invoked only if n moves have been
\* completed
C35_CallbackAfterOwnOperation ==
    \A n \in 1..calls :
        ShiftCalls[n] = "move" /\ Invoked(n) => CompletedMoves(MainNode) >= n

\* the callback of the second move() has been invoked by a call of
\* recoverFromFault() in IDLE, with the second move not started: the task
\* that starts it is still posted
C35_InvokedBeforeStart ==
    /\ invoked = <<1, 2>>
    /\ CompletedMoves(MainNode) = 1
    /\ m_state[MainNode] = "IDLE"
    /\ Len(posted) = 1
    /\ posted[1].task = "prepareMove"
    /\ lastCall.op = "recoverFromFault"

(***************************************************************************)
(* Claims about the values a move writes                                   *)
(***************************************************************************)
\* entry i of busLog is a write of the control word 0x6040 of driver d by
\* executeMove: m_currentMoveMode | 0x000f with a mode of MoveArguments
ExecuteMoveWrite(d, i) ==
    /\ busLog[i].node = d
    /\ busLog[i].via # "read"
    /\ busLog[i].index = 24640
    /\ \E args \in MoveArguments : busLog[i].val = BitOr(args.mode, 15)

\* C36: the values written for a move are the arguments of the move() call
\* that started it, whatever calls are made meanwhile: the control word of
\* executeMove carries the mode of the control word that prepareMove wrote
\* last for the same move
C36_MoveWritesItsArguments ==
    \A i \in 2..Len(busLog) :
        ExecuteMoveWrite(MainNode, i)
        => \E args \in MoveArguments :
              /\ busLog[i - 1] =
                    BusEntry(MainNode, busLog[i].via, 24640, 0,
                             BitOr(args.mode, 287))
              /\ busLog[i].val = BitOr(args.mode, 15)

\* the first move was prepared with mode RELATIVE (0x0040) and position
\* 100000, and was triggered with the mode ABSOLUTE of the second call
C36_TriggeredWithLaterMode ==
    /\ calls = 2
    /\ Len(busLog) = 8
    /\ busLog[3] = BusEntry(MainNode, "pdo", 24698, 0, 100000)
    /\ busLog[7] = BusEntry(MainNode, "pdo", 24640, 0, 351)
    /\ busLog[8] = BusEntry(MainNode, "pdo", 24640, 0, 15)
    /\ trace[MainNode] = <<"PREPARE_MOVE", "READY_TO_MOVE">>

(***************************************************************************)
(* Claims about the completion of the start-homing write                   *)
(***************************************************************************)
\* the step is the completion of the write 0x6040 = 0x001F of driver d
StartHomingCompletes(d) ==
    /\ sdoQueue[d] # <<>>
    /\ Head(sdoQueue[d]) = HomingCallback
    /\ sdoQueue'[d] = Tail(sdoQueue[d])

\* C37: the completion of the start-homing write takes the driver to
\* HOMING only from READY_FOR_HOMING and changes nothing in any other
\* state, so that FAULT_STATE is never followed by HOMING
C37_HomingOnlyFromReady ==
    [][StartHomingCompletes(MainNode)
          /\ m_state[MainNode] # "READY_FOR_HOMING"
          => UNCHANGED <<m_state, trace>>]_vars

\* the drive has reported a fault while the start-homing write was on its
\* way, and the completion of the write has taken the driver from
\* FAULT_STATE to HOMING
C37_FaultThenHoming ==
    /\ m_state[MainNode] = "HOMING"
    /\ Len(trace[MainNode]) > 2
    /\ trace[MainNode][Len(trace[MainNode]) - 1] = "FAULT_STATE"
    /\ trace[MainNode][Len(trace[MainNode]) - 2] = "READY_FOR_HOMING"
    /\ m_statusWord[MainNode] = FAULT

(***************************************************************************)
(* Claims about the mutex of the queue of idle continuations               *)
(***************************************************************************)
\* C38: an idle continuation runs without the mutex of the queue being
\* held: when the operation a continuation calls enters addCallbackOnIdle
\* the executor thread does not own the mutex, and no thread waits for the
\* mutex for ever
C38_CalledBackUnlocked ==
    /\ m_callbacksOnIdleMutex.executor = "lock in callback"
          => m_callbacksOnIdleMutex.owner # "executor"
    /\ m_callbacksOnIdleMutex.executor # "blocked"

\* the executor thread is blocked in addCallbackOnIdle by the mutex it
\* owns itself, and another thread waits for that mutex
C38_BothBlocked ==
    /\ m_callbacksOnIdleMutex.executor = "blocked"
    /\ m_callbacksOnIdleMutex.owner = "executor"
    /\ m_callbacksOnIdleMutex.thread = "waits"

(***************************************************************************)
(* Claims about homing on the main driver of a pair                        *)
(***************************************************************************)
\* the step is the status word sw of the drive of driver d, new to d
ReportsWord(d, sw) ==
    /\ m_statusWord[d] # sw
    /\ m_statusWord'[d] = sw
    /\ calls' = calls

\* C39: with the driver in PREPARE_HOMING, the status word 0x0037 of its
\* own drive (switched on, operation enabled) takes it to
\* READY_FOR_HOMING, with a follower as without
C39_HomingProgresses ==
    [][m_state[MainNode] = "PREPARE_HOMING" /\ ReportsWord(MainNode, 55)
          => m_state'[MainNode] = "READY_FOR_HOMING"]_vars

\* home() was called in IDLE on the main driver of the pair, its drive has
\* reported 0x0037 and the driver still is in PREPARE_HOMING
C39_HomingStuck ==
    /\ m_followingNodeID[MainNode] = FollowerNode
    /\ lastCall.op = "home"
    /\ lastCall.from = "IDLE"
    /\ calls = 1
    /\ m_statusWord[MainNode] = 55
    /\ trace[MainNode] = <<"PREPARE_HOMING">>
    /\ m_state[MainNode] = "PREPARE_HOMING"
    /\ sdoQueue[MainNode] = <<>>
    /\ posted = <<>>

\* as long as home() on the main driver of the pair is the only call, the
\* driver enters no state but PREPARE_HOMING and FAULT_STATE
C39_PairHomingNeverReady ==
    /\ calls = 1
    /\ lastCall.op = "home"
    /\ m_followingNodeID[MainNode] # 0
    => \A i \in 1..Len(trace[MainNode]) :
          trace[MainNode][i] \in {"PREPARE_HOMING", "FAULT_STATE"}

\* the read of 0x6041 of OnConfig of node d completes with an abort code
FailedStatusWordRead(d) ==
    /\ sdoQueue[d] # <<>>
    /\ Head(sdoQueue[d]) = StatusWordCallback
    /\ sdoQueue'[d] = Tail(sdoQueue[d])
    /\ busLog' # busLog
    /\ busLog'[Len(busLog')].via = "res"
    /\ busLog'[Len(busLog')].val # 0

\* C40: when the read of 0x6041 that OnConfig submits fails, the state of the
\* driver and its stored status word stay as they were
C40_FailedReadChangesNothing ==
    [][\A d \in MotorNodes :
          FailedStatusWordRead(d) =>
              /\ m_state'[d] = m_state[d]
              /\ m_statusWord'[d] = m_statusWord[d]]_vars

\* C40: the read of 0x6041 has failed, its error has been passed to the
\* completion callback, and the driver has left INITIAL_STATE without any
\* status word of the drive
C40_LeftInitialStateOnFailedRead ==
    /\ Len(busLog) = 2
    /\ busLog[1].via = "read" /\ busLog[1].index = 24641
    /\ busLog[2].via = "res" /\ busLog[2].val \in RemoteErrors
    /\ m_statusWord[MainNode] = 0
    /\ m_state[MainNode] # "INITIAL_STATE"

\* C40: the error of a failed read of 0x6041 is passed to the completion
\* callback of OnConfig
C40_ReadErrorPassedOn ==
    [][\A d \in MotorNodes :
          (/\ sdoQueue[d] # <<>>
           /\ Head(sdoQueue[d]) = StatusWordCallback
           /\ sdoQueue'[d] = Tail(sdoQueue[d]))
          => /\ busLog' # busLog
             /\ busLog'[Len(busLog')].via = "res"]_vars

====
